---- MODULE Spec2Model ----
(***************************************************************************)
(* Model of the CV / job-description matching server                       *)
(* (src/unnamed/part_001, lines 237-768, the multi-provider server.js):    *)
(* the request throttle (rateLimitedFetch / processQueue), the name cache, *)
(* the scoring client's score coercion, and the batch and single-pair      *)
(* request handlers.                                                       *)
(*                                                                         *)
(* One action is one run of JavaScript between two suspension points of    *)
(* the event loop: a handler runs from the settlement it awaited up to the *)
(* next await that really suspends (pdfParse, a throttled fetch).          *)
(***************************************************************************)
EXTENDS Integers, Sequences, FiniteSets, TLC

(***************************************************************************)
(* Bounds of the model.                                                    *)
(***************************************************************************)
MaxDocs == 2
MaxLoad == 3
MaxMant == 160
MaxReply == 5
MaxFiles == 2
MaxRows == 4
MaxRuns == 2

(* const REQUEST_DELAY = 500 *)
REQUEST_DELAY == 500

(* the requests the server receives: each is one POST, to either endpoint  *)
Requests == {"r1", "r2", "r3"}
(* originalname of the uploaded resumes, in the order the model first uses *)
(* them: names are only ever compared for equality (the cache key), so a   *)
(* run that first uploads "b.pdf" is the run that first uploads "a.pdf"    *)
(* under a renaming                                                        *)
FileOrder == <<"a.pdf", "b.pdf">>
FileNames == {FileOrder[j] : j \in 1..Len(FileOrder)}
(* file names of which one is also the name of a property every object     *)
(* inherits from Object.prototype: these are not interchangeable           *)
ProtoOrder == <<"constructor", "a.pdf">>
CacheKeys == FileNames \cup {ProtoOrder[j] : j \in 1..Len(ProtoOrder)}

(***************************************************************************)
(* JavaScript values of the provider's match_score field.                  *)
(* A number is mant * 10^exp10 with mant free of trailing zeros; a string  *)
(* is its sequence of characters; "missing" is an absent field.            *)
(***************************************************************************)
Num(m, e) == [t |-> "num", mant |-> m, exp10 |-> e, chars |-> <<>>]
Str(s) == [t |-> "str", mant |-> 0, exp10 |-> 0, chars |-> s]
Missing == [t |-> "missing", mant |-> 0, exp10 |-> 0, chars |-> <<>>]

DigitChars == <<"0", "1", "2", "3", "4", "5", "6", "7", "8", "9">>

IsDigit(c) == \E d \in 1..10 : DigitChars[d] = c

DigitVal(c) == (CHOOSE d \in 1..10 : DigitChars[d] = c) - 1

Abs(n) == IF n < 0 THEN -n ELSE n

(* decimal digits of a natural number, most significant first *)
RECURSIVE Digits(_)
Digits(n) == IF n < 10 THEN <<DigitChars[n + 1]>>
             ELSE Digits(n \div 10) \o <<DigitChars[(n % 10) + 1]>>

Zeros(k) == [j \in 1..k |-> "0"]

(* Number::toString(10) of mant * 10^exp10 (ECMA-262 6.1.6.1.20): plain    *)
(* digits with a decimal point while the point position n is in -5..21,    *)
(* exponent notation outside that range.                                   *)
NumberToString(m, e) ==
  IF m = 0 THEN <<"0">>
  ELSE LET ds == Digits(Abs(m))
           k == Len(ds)
           n == k + e
           sign == IF m < 0 THEN <<"-">> ELSE <<>>
           body ==
             IF k <= n /\ n <= 21 THEN ds \o Zeros(n - k)
             ELSE IF 0 < n /\ n <= 21
               THEN SubSeq(ds, 1, n) \o <<".">> \o SubSeq(ds, n + 1, k)
             ELSE IF -6 < n /\ n <= 0
               THEN <<"0", ".">> \o Zeros(-n) \o ds
             ELSE LET x == n - 1
                      es == (IF x < 0 THEN <<"-">> ELSE <<"+">>) \o Digits(Abs(x))
                  IN  IF k = 1 THEN ds \o <<"e">> \o es
                      ELSE <<ds[1]>> \o <<".">> \o SubSeq(ds, 2, k) \o <<"e">> \o es
       IN  sign \o body

(* ToString (ECMA-262 7.1.17) of the argument, as parseInt applies it first *)
JSToString(v) ==
  IF v.t = "num" THEN NumberToString(v.mant, v.exp10)
  ELSE IF v.t = "str" THEN v.chars
  ELSE <<"u", "n", "d", "e", "f", "i", "n", "e", "d">>

RECURSIVE TrimLeft(_)
TrimLeft(s) == IF s # <<>> /\ Head(s) = " " THEN TrimLeft(Tail(s)) ELSE s

RECURSIVE DigitPrefix(_)
DigitPrefix(s) == IF s # <<>> /\ IsDigit(Head(s))
                  THEN <<Head(s)>> \o DigitPrefix(Tail(s))
                  ELSE <<>>

RECURSIVE DigitsValue(_)
DigitsValue(ds) == IF ds = <<>> THEN 0
                   ELSE 10 * DigitsValue(SubSeq(ds, 1, Len(ds) - 1)) + DigitVal(ds[Len(ds)])

NaN == [nan |-> TRUE, val |-> 0]
Int32(n) == [nan |-> FALSE, val |-> n]

(* parseInt(x) without a radix, on inputs that carry no 0x prefix: skip    *)
(* leading blanks, read an optional sign, then the longest run of digits;  *)
(* NaN when that run is empty.                                             *)
ParseInt(v) ==
  LET s == TrimLeft(JSToString(v))
      neg == s # <<>> /\ Head(s) = "-"
      rest == IF s # <<>> /\ Head(s) \in {"-", "+"} THEN Tail(s) ELSE s
      ds == DigitPrefix(rest)
  IN  IF ds = <<>> THEN NaN
      ELSE Int32(IF neg THEN -DigitsValue(ds) ELSE DigitsValue(ds))

(* x || 50 : NaN, 0 and -0 are falsy *)
OrDefault(p, d) == IF p.nan \/ p.val = 0 THEN d ELSE p.val

Min(a, b) == IF a < b THEN a ELSE b
Max(a, b) == IF a > b THEN a ELSE b

(* Math.max(0, Math.min(100, parseInt(result.match_score) || 50)) *)
CoerceScoreNoUpper(v) == Max(0, OrDefault(ParseInt(v), 50))
CoerceScore(v) == Max(0, Min(100, OrDefault(ParseInt(v), 50)))

(***************************************************************************)
(* Documents, provider replies and results.                                *)
(***************************************************************************)
NoName == "<null>"
Unknown == "Unknown"
(* undefined: the value of an absent property *)
Undefined == "<undefined>"
(* the function Object, the value of ({}).constructor *)
ObjectFn == "<function Object>"

(* ToBoolean of the values a name can take: null, undefined and "" are     *)
(* falsy, a non-empty string and a function are truthy                     *)
Truthy(v) == v \notin {NoName, Undefined, ""}

(* nameCache[cacheKey] on the plain object nameCache = {}: the own         *)
(* property if one was written, else the property inherited from           *)
(* Object.prototype, else undefined                                        *)
CacheGet(cache, key) ==
  IF cache[key] # NoName THEN cache[key]
  ELSE IF key = "constructor" THEN ObjectFn
  ELSE Undefined

(* texts pdfParse can return, with the name extractNameRegex finds in them *)
Texts == {"Jane Doe\nEngineer", "RESUME\n2024"}
(* a text with an email address, a phone number and a profile link *)
ContactText == "Jane Doe\njane.doe@example.com\n+1 415-555-0100\nlinkedin.com/in/janedoe"
ExtractNameRegex(text) ==
  IF text \in {"Jane Doe\nEngineer", ContactText} THEN "Jane Doe" ELSE NoName

(* names the model's reply can carry in its "name" field *)
ReplyNames == {"Ann Lee", Unknown}
(* the same with an empty, a null and a missing "name" field *)
AllReplyNames == ReplyNames \cup {"", NoName, Undefined}

(* replies of the provider to a scoring call: the parsed JSON object *)
ScoreReply(score, fit) == [match_score |-> score, seniority_fit |-> fit, summary |-> "fit summary"]
ScoreReplies ==
  { ScoreReply(Num(15, 1), "Strong"),
    ScoreReply(Num(-5, 0), "Weak"),
    ScoreReply(Num(505, -1), "Medium"),
    ScoreReply(Str(<<"N", "/", "A">>), "Medium"),
    ScoreReply(Missing, "Medium") }

(* the textual content of a success Response, as the caller reads it after *)
(* await response.json(): the JSON object found in it, if any              *)
NoJson == [form |-> "nojson", name |-> NoName, reply |-> ScoreReply(Missing, "")]
BadJson == [form |-> "badjson", name |-> NoName, reply |-> ScoreReply(Missing, "")]
NameJson(n) == [form |-> "json", name |-> n, reply |-> ScoreReply(Missing, "")]
ScoreJson(rep) == [form |-> "json", name |-> NoName, reply |-> rep]

NameResponses == {NoJson, BadJson} \cup {NameJson(n) : n \in ReplyNames}
AllNameResponses == {NoJson, BadJson} \cup {NameJson(n) : n \in AllReplyNames}
ScoreResponses == {NoJson, BadJson} \cup {ScoreJson(rep) : rep \in ScoreReplies}

(* the body of a non-success Response: JSON with error.message, JSON       *)
(* without it (or with an empty one), the JSON value null, or text that is *)
(* not JSON                                                                *)
ProviderMessage == "Rate limit reached"
ErrorBody(form, message) == [form |-> form, message |-> message]
NoMessage == ErrorBody("json", Undefined)
ErrorBodies ==
  { ErrorBody("json", ProviderMessage), NoMessage, ErrorBody("json", ""),
    ErrorBody("null", Undefined), ErrorBody("text", Undefined) }

(* the environment of a run: the endpoints each client posts to and the    *)
(* number of resume documents the clients upload in total, the texts the   *)
(* documents can hold, how a fetch can settle, and the responses the       *)
(* provider can give                                                       *)
Endpoints == {"batch", "single"}
FullWorld == [clients |-> [r \in Requests |-> IF r = "r3" THEN {} ELSE Endpoints],
              docs |-> MaxDocs, names |-> FileOrder, alike |-> TRUE,
              texts |-> Texts, fetch |-> {"ok", "notok", "rejected"},
              name |-> NameResponses, score |-> ScoreResponses,
              errors |-> {NoMessage}]

(* a heavier load on the throttle from a provider with fewer kinds of reply *)
LoadWorld == [clients |-> [r \in Requests |-> IF r = "r1" THEN {"batch"} ELSE {"single"}],
              docs |-> MaxLoad, names |-> FileOrder, alike |-> TRUE,
              texts |-> {"RESUME\n2024"}, fetch |-> {"ok", "rejected"},
              name |-> {NameJson("Ann Lee")},
              score |-> {ScoreJson(ScoreReply(Num(15, 1), "Strong"))},
              errors |-> {NoMessage}]

(* the same load on a provider that answers every call *)
CalmWorld == [LoadWorld EXCEPT !.fetch = {"ok"}]

(* a provider that refuses calls, with one kind of error body, or answers  *)
(* without a JSON object                                                   *)
ErrorsWorld(body) ==
  [FullWorld EXCEPT !.texts = {"RESUME\n2024"}, !.fetch = {"ok", "notok"},
                    !.name = {NameJson("Ann Lee")},
                    !.score = {NoJson, BadJson, ScoreJson(ScoreReply(Num(15, 1), "Strong"))},
                    !.errors = {body}]

(* documents that hold contact data, a provider that names them and may    *)
(* refuse the scoring call or answer it without a JSON object              *)
ContactsWorld ==
  [FullWorld EXCEPT !.texts = {ContactText, "RESUME\n2024"}, !.fetch = {"ok", "notok"},
                    !.name = {NameJson("Ann Lee")},
                    !.score = {NoJson, ScoreJson(ScoreReply(Num(15, 1), "Strong"))}]

(* clients that also upload a file whose originalname is "constructor",   *)
(* and a provider whose name replies take every form                       *)
NamesWorld == [FullWorld EXCEPT !.names = ProtoOrder, !.alike = FALSE,
                                !.name = AllNameResponses,
                                !.score = {ScoreJson(ScoreReply(Num(15, 1), "Strong"))}]

(* err.message of the error each failing step throws *)
ErrPdf == "Error: pdf parse failed"
ErrFetch == "Error: fetch failed"
ErrStatus == "Error: LLM request failed"
ErrJson == "Error: LLM did not return valid JSON"
ErrParse == "Error: Unexpected token in JSON"
ErrProvider == "Error: Rate limit reached"
ErrNull == "Error: Cannot read properties of null (reading 'error')"

StatusErrorGeneric(body) == ErrStatus

(* if (!response.ok): err = await response.json(), which rejects when the  *)
(* body is not JSON; then throw new Error(err.error?.message ||            *)
(* 'LLM request failed'), where err.error throws when err is null          *)
StatusError(body) ==
  IF body.form = "text" THEN ErrParse
  ELSE IF body.form = "null" THEN ErrNull
  ELSE IF body.message = ProviderMessage THEN ErrProvider
  ELSE ErrStatus

NoResponse == [status |-> 0, total |-> 0, ranked_results |-> <<>>, body |-> <<>>]


(***************************************************************************)
(* The contact fields of extractEntities (email, phone, linkedin).         *)
(* A string is its sequence of characters. The input is what the regular   *)
(* expressions find in the text: text.match(re) of a global expression is  *)
(* null or the non-empty array of all matches; line.match(re) of the       *)
(* secondary phone scan is null or the match with its groups.              *)
(***************************************************************************)
(* the sentinel '—' (one character, U+2014) *)
Dash == <<"EM DASH">>
UndefinedField == <<"undefined">>

NoMatch == [null |-> TRUE, all |-> <<>>]
Matches(all) == [null |-> FALSE, all |-> all]

Whitespace == {" ", "\t", "\n"}

(* s.replace(/[\s\-()]/g, '') *)
StripPhone(s) == SelectSeq(s, LAMBDA c : c \notin Whitespace \cup {"-", "(", ")"})

(* s.replace(/^0/, '+91') *)
ReplaceLeadingZero(s) ==
  IF s # <<>> /\ Head(s) = "0" THEN <<"+", "9", "1">> \o Tail(s) ELSE s

RECURSIVE TrimRight(_)
TrimRight(s) ==
  IF s # <<>> /\ s[Len(s)] \in Whitespace THEN TrimRight(SubSeq(s, 1, Len(s) - 1)) ELSE s

RECURSIVE TrimLeading(_)
TrimLeading(s) == IF s # <<>> /\ Head(s) \in Whitespace THEN TrimLeading(Tail(s)) ELSE s

(* s.trim() *)
Trim(s) == TrimRight(TrimLeading(s))

StartsWith(s, pre) == Len(s) >= Len(pre) /\ SubSeq(s, 1, Len(pre)) = pre

(* a line of the text as the secondary scan sees it: m1 the match of       *)
(* /(\+91[\s]?)?([6-9]\d{9})/ and m2 the groups 1 and 2 of                 *)
(* /\(91\)[\s]?([6-9]\d{4})[\s-]?(\d{5})/                                  *)
Line(m1, m2) == [m1 |-> m1, m2 |-> m2]

(* for (const line of lines) of extractPhones *)
RECURSIVE ScanLines(_)
ScanLines(lines) ==
  IF lines = <<>> THEN Dash
  ELSE LET line == Head(lines)
       IN  IF ~line.m1.null THEN Trim(line.m1.all[1])
           ELSE IF ~line.m2.null
             THEN <<"+", "9", "1">> \o line.m2.all[1] \o line.m2.all[2]
           ELSE ScanLines(Tail(lines))

ExtractPhonesNoSentinel(primary, lines) ==
  LET matches == IF primary.null THEN <<>> ELSE primary.all
  IN  IF Len(matches) > 0
      THEN ReplaceLeadingZero(StripPhone(matches[1]))
      ELSE IF lines = <<>> THEN <<>> ELSE ScanLines(lines)

(* extractPhones(text) *)
ExtractPhones(primary, lines) ==
  LET matches == IF primary.null THEN <<>> ELSE primary.all
  IN  IF Len(matches) > 0
      THEN LET phone == ReplaceLeadingZero(StripPhone(matches[1]))
           IN  IF phone = <<>> THEN Dash ELSE phone
      ELSE ScanLines(lines)

(* (text.match(emailRegex) || [])[0] || '—' *)
ExtractEmail(m) ==
  LET arr == IF m.null THEN <<>> ELSE m.all
      first == IF Len(arr) >= 1 THEN arr[1] ELSE UndefinedField
  IN  IF first = UndefinedField \/ first = <<>> THEN Dash ELSE first

(* linkedinMatch ? (linkedinMatch[0].startsWith('http') ? linkedinMatch[0] *)
(* : `https://${linkedinMatch[0]}`) : '—'                                  *)
ExtractLinkedin(m) ==
  IF m.null THEN Dash
  ELSE IF StartsWith(m.all[1], <<"h", "t", "t", "p">>) THEN m.all[1]
  ELSE <<"h", "t", "t", "p", "s", ":", "/", "/">> \o m.all[1]

(* what the expressions can find in a text *)
Email1 ==
  <<"j", "a", "n", "e", ".", "d", "o", "e", "@", "e", "x", "a",
         "m", "p", "l", "e", ".", "c", "o", "m">>
Email2 ==
  <<"h", "r", "@", "c", "o", "r", "p", ".", "i", "o">>
EmailMatches == {NoMatch, Matches(<<Email1>>), Matches(<<Email2, Email1>>)}

Phone1 ==
  <<"+", "1", " ", "4", "1", "5", "-", "5", "5", "5", "-", "0",
         "1", "0", "0">>
Phone2 ==
  <<"0", "9", "8", "7", "6", "5", "4", "3", "2", "1", "0">>
Phone3 ==
  <<"(", "4", "1", "5", ")", " ", "5", "5", "5", "-", "0", "1",
         "0", "0">>
Phone4 ==
  <<"9", "8", "7", " ", "6", "5", "4", " ", "3", "2", "1", "0">>
PhoneMatches ==
  {NoMatch, Matches(<<Phone1>>), Matches(<<Phone2>>), Matches(<<Phone3, Phone1>>),
   Matches(<<Phone4>>)}

(* the lines of a text in which the primary phone expression finds         *)
(* nothing: the first secondary expression then finds nothing either (ten  *)
(* digits in a row are a match of the primary one)                         *)
NoLine == Line(NoMatch, NoMatch)
ParenLine == Line(NoMatch, Matches(<<<<"9", "8", "7", "6", "5">>, <<"4", "3", "2", "1", "0">>>>))
LineSeqs == {<<>>, <<NoLine>>, <<NoLine, NoLine>>, <<ParenLine>>, <<NoLine, ParenLine>>}

Link1 ==
  <<"l", "i", "n", "k", "e", "d", "i", "n", ".", "c", "o", "m",
         "/", "i", "n", "/", "j", "a", "n", "e", "d", "o", "e">>
Link2 ==
  <<"h", "t", "t", "p", "s", ":", "/", "/", "w", "w", "w", ".",
         "l", "i", "n", "k", "e", "d", "i", "n", ".", "c", "o",
         "m", "/", "i", "n", "/", "j", "a", "n", "e", "-", "d",
         "o", "e">>
Link3 ==
  <<"H", "T", "T", "P", "S", ":", "/", "/", "L", "i", "n", "k",
         "e", "d", "I", "n", ".", "c", "o", "m", "/", "i", "n",
         "/", "J", "D">>
LinkedinMatches == {NoMatch, Matches(<<Link1>>), Matches(<<Link2>>), Matches(<<Link3>>)}

(* what emailRegex, phoneRegex (and the line scan) and linkedinRegex find   *)
(* in the texts pdfParse can return                                        *)
TextMatches(text) ==
  IF text = ContactText
  THEN [email |-> Matches(<<Email1>>), phone |-> Matches(<<Phone1>>),
        lines |-> <<>>, linkedin |-> Matches(<<Link1>>)]
  ELSE [email |-> NoMatch, phone |-> NoMatch,
        lines |-> <<NoLine, NoLine>>, linkedin |-> NoMatch]

(* the email, phone and linkedin fields extractEntities returns for a text *)
Contacts(text) ==
  [email |-> ExtractEmail(TextMatches(text).email),
   phone |-> ExtractPhones(TextMatches(text).phone, TextMatches(text).lines),
   linkedin |-> ExtractLinkedin(TextMatches(text).linkedin)]

NoEntities == [done |-> FALSE, emailMatch |-> NoMatch, phoneMatch |-> NoMatch,
               lines |-> <<>>, linkedinMatch |-> NoMatch,
               email |-> <<>>, phone |-> <<>>, linkedin |-> <<>>]

(***************************************************************************)
(* Startup: the configuration read from the environment, the provider      *)
(* detected from it, and the requests built for the provider.              *)
(* process.env.X is undefined when X is not set; a URL is its sequence of  *)
(* characters.                                                             *)
(***************************************************************************)
UrlAnthropic ==
  <<"h", "t", "t", "p", "s", ":", "/", "/", "a", "p", "i", ".",
         "a", "n", "t", "h", "r", "o", "p", "i", "c", ".", "c",
         "o", "m", "/", "v", "1">>
UrlOpenAI ==
  <<"h", "t", "t", "p", "s", ":", "/", "/", "a", "p", "i", ".",
         "o", "p", "e", "n", "a", "i", ".", "c", "o", "m", "/",
         "v", "1">>
UrlPerplexity ==
  <<"h", "t", "t", "p", "s", ":", "/", "/", "a", "p", "i", ".",
         "p", "e", "r", "p", "l", "e", "x", "i", "t", "y", ".",
         "a", "i">>
UrlDeepSeek ==
  <<"h", "t", "t", "p", "s", ":", "/", "/", "a", "p", "i", ".",
         "d", "e", "e", "p", "s", "e", "e", "k", ".", "c", "o",
         "m">>
UrlGroq ==
  <<"h", "t", "t", "p", "s", ":", "/", "/", "a", "p", "i", ".",
         "g", "r", "o", "q", ".", "c", "o", "m", "/", "v", "1">>
UrlGroqOpenAI ==
  <<"h", "t", "t", "p", "s", ":", "/", "/", "a", "p", "i", ".",
         "g", "r", "o", "q", ".", "c", "o", "m", "/", "o", "p",
         "e", "n", "a", "i", "/", "v", "1">>
UrlLocalhost ==
  <<"h", "t", "t", "p", ":", "/", "/", "l", "o", "c", "a", "l",
         "h", "o", "s", "t", ":", "1", "1", "4", "3", "4", "/",
         "v", "1">>
UrlLoopback ==
  <<"h", "t", "t", "p", ":", "/", "/", "1", "2", "7", ".", "0",
         ".", "0", ".", "1", ":", "1", "1", "4", "3", "4", "/",
         "v", "1">>
UrlOther ==
  <<"h", "t", "t", "p", "s", ":", "/", "/", "l", "l", "m", ".",
         "e", "x", "a", "m", "p", "l", "e", ".", "o", "r", "g",
         "/", "v", "1">>
UrlGateway ==
  <<"h", "t", "t", "p", "s", ":", "/", "/", "g", "w", ".", "e",
         "x", "a", "m", "p", "l", "e", ".", "o", "r", "g", "/",
         "a", "n", "t", "h", "r", "o", "p", "i", "c">>
BaseUrls == {UndefinedField, <<>>, UrlAnthropic, UrlOpenAI, UrlPerplexity, UrlDeepSeek,
             UrlGroq, UrlGroqOpenAI, UrlLocalhost, UrlLoopback,
             UrlOther, UrlGateway}

Keys == {Undefined, "", "sk-openai"}
AnthropicKeys == {Undefined, "sk-ant"}
Models == {Undefined, "", "model-x"}

(* ToBoolean of a string read from the environment: undefined and "" are  *)
(* falsy                                                                   *)
IsSet(v) == v \notin {Undefined, ""}
IsSetUrl(u) == u \notin {UndefinedField, <<>>}

(* a || b *)
Or(a, b) == IF IsSet(a) THEN a ELSE b

(* s.includes(sub) *)
Includes(s, sub) ==
  \E k \in 1..(Len(s) - Len(sub) + 1) : SubSeq(s, k, k + Len(sub) - 1) = sub

(* function detectProvider() *)
DetectProvider(baseUrl) ==
  IF ~IsSetUrl(baseUrl) THEN "UNKNOWN"
  ELSE IF Includes(baseUrl, <<"a", "n", "t", "h", "r", "o", "p", "i", "c">>) THEN "ANTHROPIC"
  ELSE IF Includes(baseUrl, <<"o", "p", "e", "n", "a", "i">>) THEN "OPENAI"
  ELSE IF Includes(baseUrl, <<"p", "e", "r", "p", "l", "e", "x", "i", "t", "y">>) THEN "PERPLEXITY"
  ELSE IF Includes(baseUrl, <<"d", "e", "e", "p", "s", "e", "e", "k">>) THEN "DEEPSEEK"
  ELSE IF Includes(baseUrl, <<"g", "r", "o", "q">>) THEN "GROQ"
  ELSE IF \/ Includes(baseUrl, <<"l", "o", "c", "a", "l", "h", "o", "s", "t">>)
          \/ Includes(baseUrl, <<"1", "2", "7", ".", "0", ".", "0", ".", "1">>) THEN "OLLAMA"
  ELSE "CUSTOM"

ConfigMissingNoModel(apiKey, baseUrl, model) == ~IsSet(apiKey) \/ ~IsSetUrl(baseUrl)

(* !API_KEY || !BASE_URL || !MODEL *)
ConfigMissing(apiKey, baseUrl, model) ==
  ~IsSet(apiKey) \/ ~IsSetUrl(baseUrl) \/ ~IsSet(model)

AnthropicMessages ==
  <<"h", "t", "t", "p", "s", ":", "/", "/", "a", "p", "i", ".",
         "a", "n", "t", "h", "r", "o", "p", "i", "c", ".", "c",
         "o", "m", "/", "v", "1", "/", "m", "e", "s", "s", "a",
         "g", "e", "s">>
ChatCompletions ==
  <<"/", "c", "h", "a", "t", "/", "c", "o", "m", "p", "l", "e",
         "t", "i", "o", "n", "s">>

NoWire == [call |-> "none", url |-> <<>>, headers |-> {}, system |-> FALSE,
           roles |-> <<>>, temperature |-> FALSE, model |-> Undefined]

(* the headers of a request, each <<name, scheme, value>>: x-api-key and   *)
(* anthropic-version for ANTHROPIC, else Authorization: Bearer <key>       *)
Headers(provider, apiKey) ==
  {<<"Content-Type", "", "application/json">>} \cup
  IF provider = "ANTHROPIC"
  THEN {<<"x-api-key", "", apiKey>>, <<"anthropic-version", "", "2023-06-01">>}
  ELSE {<<"Authorization", "Bearer", apiKey>>}

(* the URL the request is sent to *)
Endpoint(provider, baseUrl) ==
  IF provider = "ANTHROPIC" THEN AnthropicMessages ELSE baseUrl \o ChatCompletions

(* the request extractNameWithLLM builds *)
NameRequest(provider, apiKey, baseUrl, model) ==
  [call |-> "name", url |-> Endpoint(provider, baseUrl),
   headers |-> Headers(provider, apiKey),
   system |-> FALSE,
   roles |-> IF provider = "ANTHROPIC" THEN <<"user">> ELSE <<"system", "user">>,
   temperature |-> provider # "ANTHROPIC", model |-> model]

ScoreRequestOneShape(provider, apiKey, baseUrl, model) ==
  [call |-> "score", url |-> Endpoint(provider, baseUrl),
   headers |-> Headers(provider, apiKey),
   system |-> FALSE,
   roles |-> <<"system", "user">>,
   temperature |-> TRUE, model |-> model]

(* the request scoreResumeWithLLM builds *)
ScoreRequest(provider, apiKey, baseUrl, model) ==
  [call |-> "score", url |-> Endpoint(provider, baseUrl),
   headers |-> Headers(provider, apiKey),
   system |-> provider = "ANTHROPIC",
   roles |-> IF provider = "ANTHROPIC" THEN <<"user">> ELSE <<"system", "user">>,
   temperature |-> provider # "ANTHROPIC", model |-> model]

Env(openaiKey, anthropicKey, baseUrl, model) ==
  [OPENAI_API_KEY |-> openaiKey, ANTHROPIC_API_KEY |-> anthropicKey,
   OPENAI_BASE_URL |-> baseUrl, OPENAI_MODEL |-> model]

(* the process before server.js has run *)
Loading(env) == [phase |-> "load", env |-> env, API_KEY |-> Undefined,
                 BASE_URL |-> UndefinedField, MODEL |-> Undefined,
                 PROVIDER |-> "", wire |-> NoWire]

(* a configured process that has run server.js down to app.listen *)
Running ==
  [phase |-> "serving", env |-> Env("sk-openai", Undefined, UrlOpenAI, "model-x"),
   API_KEY |-> "sk-openai", BASE_URL |-> UrlOpenAI, MODEL |-> "model-x",
   PROVIDER |-> "OPENAI", wire |-> NoWire]

(***************************************************************************)
(* Response parsing: the JSON object looked for in the textual content of  *)
(* a reply.  A reply is a sequence of tokens: the braces, a complete       *)
(* member ("key": literal), a key awaiting an object value ("key":), the   *)
(* comma, and text that is not JSON.                                       *)
(***************************************************************************)
ReplyTokens == {"{", "}", "kv", "k:", ",", "txt"}
ReplyTexts == UNION {[1..n -> ReplyTokens] : n \in 0..MaxReply}

(* text.match(/\{[\s\S]*\}/): the leftmost "{" that has a "}" after it, and *)
(* from there, the star being greedy, up to the last "}" of the text       *)
MatchBraces(text) ==
  LET opens == {i \in 1..Len(text) : text[i] = "{"}
      first == CHOOSE a \in opens : \A b \in opens : a <= b
      closes == {j \in 1..Len(text) : text[j] = "}" /\ j > first}
      last == CHOOSE j \in closes : \A h \in closes : h <= j
  IN  IF opens = {} THEN NoMatch
      ELSE IF closes = {} THEN NoMatch
      ELSE Matches(<<SubSeq(text, first, last)>>)

(* JSON.parse of an object: "{" "}" or "{" member ("," member)* "}", a     *)
(* member being "kv" or "k:" followed by an object; the position after the *)
(* object that starts at i, 0 when there is none                           *)
RECURSIVE ParseObject(_, _), ParseMembers(_, _)
ParseObject(s, i) ==
  IF i > Len(s) THEN 0
  ELSE IF s[i] # "{" THEN 0
  ELSE IF i + 1 <= Len(s) /\ s[i + 1] = "}" THEN i + 2
  ELSE ParseMembers(s, i + 1)

ParseMembers(s, i) ==
  LET j == IF i > Len(s) THEN 0
           ELSE IF s[i] = "kv" THEN i + 1
           ELSE IF s[i] = "k:" THEN ParseObject(s, i + 1)
           ELSE 0
  IN  IF j = 0 \/ j > Len(s) THEN 0
      ELSE IF s[j] = "}" THEN j + 1
      ELSE IF s[j] = "," THEN ParseMembers(s, j + 1)
      ELSE 0

(* JSON.parse(match[0]) returns the object or throws a SyntaxError *)
JSONParses(s) == ParseObject(s, 1) = Len(s) + 1

NoReply == [text |-> <<>>, by |-> "none", ok |-> FALSE, obj |-> <<>>, err |-> ""]

(* extractJSON(text) *)
ExtractJSON(text) ==
  LET match == MatchBraces(text)
  IN  IF match.null THEN [ok |-> FALSE, obj |-> <<>>, err |-> ErrJson]
      ELSE IF ~JSONParses(match.all[1]) THEN [ok |-> FALSE, obj |-> <<>>, err |-> ErrParse]
      ELSE [ok |-> TRUE, obj |-> match.all[1], err |-> ""]

(* extractNameWithLLM: if (match) result = JSON.parse(match[0]); the catch *)
(* block swallows the SyntaxError and null is returned                     *)
NameJSON(text) ==
  LET match == MatchBraces(text)
  IN  IF match.null THEN [ok |-> FALSE, obj |-> <<>>, err |-> ""]
      ELSE IF ~JSONParses(match.all[1]) THEN [ok |-> FALSE, obj |-> <<>>, err |-> ""]
      ELSE [ok |-> TRUE, obj |-> match.all[1], err |-> ""]

(***************************************************************************)
(* The upload page (app.js): the two selections, the elements the script   *)
(* writes, and the click handlers of the process button that are waiting   *)
(* for the reply to a batch call.                                          *)
(***************************************************************************)
Displays == {"none", "block"}
ClearDisplays == {"none", "inline-block"}

(* the page once app.js has run: let resumes = [], jds = []; what the      *)
(* elements show is what the markup gave them                              *)
PageLoaded(disabled, clearDisplay, resultsDisplay, statusDisplay) ==
  [resumes |-> 0, jds |-> 0, resumeInput |-> 0, jdInput |-> 0,
   resumeFileList |-> 0, jdFileList |-> 0,
   processDisabled |-> disabled, processText |-> "markup",
   clearDisplay |-> clearDisplay,
   rows |-> 0, resultsDisplay |-> resultsDisplay, statusDisplay |-> statusDisplay,
   statusText |-> "markup", runs |-> <<>>, last |-> "load"]

IdleUI == PageLoaded(TRUE, "none", "none", "none")

UpdateProcessButtonEither(u) ==
  [u EXCEPT !.processDisabled = ~(u.resumes # 0 \/ u.jds # 0),
            !.processText = IF ~(u.resumes # 0 \/ u.jds # 0)
                            THEN "Upload Files to Start" ELSE "Start Matching",
            !.clearDisplay = IF u.resumes # 0 \/ u.jds # 0
                             THEN "inline-block" ELSE "none"]

(* updateProcessButton() *)
UpdateProcessButton(u) ==
  [u EXCEPT !.processDisabled = ~(u.resumes # 0 /\ u.jds # 0),
            !.processText = IF ~(u.resumes # 0 /\ u.jds # 0)
                            THEN "Upload Files to Start" ELSE "Start Matching",
            !.clearDisplay = IF u.resumes # 0 \/ u.jds # 0
                             THEN "inline-block" ELSE "none"]

(* the sequence s without its k-th element *)
Without(s, k) == SubSeq(s, 1, k - 1) \o SubSeq(s, k + 1, Len(s))

(* the click handler of the process button after the table was emptied:    *)
(* for (const jd of jds) with `left` job descriptions still to do; the     *)
(* call of processBatch(resumes, jd) reads resumes when it is made         *)
StartBatches(u, runs, left) ==
  IF left = 0
  THEN [u EXCEPT !.statusDisplay = "none", !.resultsDisplay = "block", !.runs = runs]
  ELSE [u EXCEPT !.statusText = "Processing", !.runs = Append(runs, [left |-> left, sent |-> u.resumes])]

VARIABLES
  requestQueue,   \* let requestQueue = []
  isProcessing,   \* let isProcessing = false
  inFlight,       \* tasks whose fetch was started by processQueue and has not settled
  timers,         \* delays of the armed setTimeout calls of processQueue
  nameCache,      \* const nameCache = {}
  req,            \* the request handlers: position, locals, response
  uploaded,       \* originalnames uploaded so far (history)
  world,          \* what the documents and the provider can do in this run
  raw,            \* input of the score coercion (pure-function specification)
  out,            \* its result
  ent,            \* input and result of the contact fields of extractEntities
  boot,           \* the process: environment, configuration, PROVIDER, last request built
  reply,          \* input and result of the response parsing (pure-function specification)
  ui              \* the upload page of app.js

vars == <<requestQueue, isProcessing, inFlight, timers,
          nameCache, req, uploaded, world, raw, out, ent, boot, reply, ui>>

throttleVars == <<requestQueue, isProcessing, inFlight, timers>>
scoreVars == <<uploaded, world, raw, out, ent, boot, reply, ui>>
inputVars == <<world, raw, out, ent, boot, reply, ui>>


(***************************************************************************)
(* Request throttle.                                                       *)
(***************************************************************************)
Th == [requestQueue |-> requestQueue, isProcessing |-> isProcessing,
       inFlight |-> inFlight, timers |-> timers]

SetThrottle(th) ==
  /\ requestQueue' = th.requestQueue
  /\ isProcessing' = th.isProcessing
  /\ inFlight' = th.inFlight
  /\ timers' = th.timers

ProcessQueueNoGuard(th) ==
  IF Len(th.requestQueue) = 0 THEN th
  ELSE [th EXCEPT !.isProcessing = TRUE,
                  !.requestQueue = Tail(@),
                  !.inFlight = @ \cup {Head(th.requestQueue)}]

ProcessQueuePop(th) ==
  IF th.isProcessing \/ Len(th.requestQueue) = 0 THEN th
  ELSE [th EXCEPT !.isProcessing = TRUE,
                  !.requestQueue = SubSeq(@, 1, Len(@) - 1),
                  !.inFlight = @ \cup {th.requestQueue[Len(th.requestQueue)]}]

(* processQueue() up to its first await: the guard, isProcessing = true,   *)
(* requestQueue.shift() and the call of request(), which starts the fetch  *)
ProcessQueue(th) ==
  IF th.isProcessing \/ Len(th.requestQueue) = 0 THEN th
  ELSE LET request == Head(th.requestQueue)
       IN  [th EXCEPT !.isProcessing = TRUE,
                      !.requestQueue = Tail(@),
                      !.inFlight = @ \cup {request}]

RateLimitedFetchDirect(th, owner, kind) ==
  LET task == [owner |-> owner, kind |-> kind]
  IN  IF kind = "name" THEN [th EXCEPT !.inFlight = @ \cup {task}]
      ELSE ProcessQueue([th EXCEPT !.requestQueue = Append(@, task)])

(* rateLimitedFetch(url, options): requestQueue.push(...); processQueue()  *)
RateLimitedFetch(th, owner, kind) ==
  LET task == [owner |-> owner, kind |-> kind]
  IN  ProcessQueue([th EXCEPT !.requestQueue = Append(@, task)])

(***************************************************************************)
(* Ranking: results.sort((a, b) => b.match_score - a.match_score).         *)
(* Array.prototype.sort is stable (ECMA-262 23.1.3.30); it is computed     *)
(* here as a stable insertion sort under the same comparator.              *)
(***************************************************************************)
CompareAscending(a, b) == a.match_score - b.match_score

Compare(a, b) == b.match_score - a.match_score

RECURSIVE InsertUnstable(_, _)
InsertUnstable(s, x) ==
  IF s = <<>> THEN <<x>>
  ELSE IF Compare(s[Len(s)], x) >= 0
    THEN Append(InsertUnstable(SubSeq(s, 1, Len(s) - 1), x), s[Len(s)])
    ELSE Append(s, x)

RECURSIVE Insert(_, _)
Insert(s, x) ==
  IF s = <<>> THEN <<x>>
  ELSE IF Compare(s[Len(s)], x) > 0
    THEN Append(Insert(SubSeq(s, 1, Len(s) - 1), x), s[Len(s)])
    ELSE Append(s, x)

RECURSIVE SortResults(_)
SortResults(s) ==
  IF s = <<>> THEN <<>>
  ELSE Insert(SortResults(SubSeq(s, 1, Len(s) - 1)), s[Len(s)])

(***************************************************************************)
(* Request handlers.                                                       *)
(***************************************************************************)
NewRequest == [kind |-> "none", pc |-> "new", files |-> <<>>, n |-> 0, i |-> 0,
               jd |-> FALSE,
               text |-> "", llm |-> NoName, name |-> NoName, results |-> <<>>,
               from |-> "none",
               inbox |-> "none", response |-> NoResponse]

(* JSON.stringify of a result, as res.json sends it: a property whose      *)
(* value is a function is left out, so the client reads undefined          *)
ToJSON(res) ==
  [res EXCEPT !.candidate_name = IF @ = ObjectFn THEN Undefined ELSE @]

Respond(rq, status, ranked, body) ==
  [rq EXCEPT !.pc = "done", !.text = "", !.llm = NoName, !.name = NoName,
             !.inbox = "none",
             !.from = "none", !.i = 0, !.files = <<>>, !.results = <<>>,
             !.response = [status |-> status, total |-> Len(ranked),
                           ranked_results |-> [k \in 1..Len(ranked) |-> ToJSON(ranked[k])],
                           body |-> [k \in 1..Len(body) |-> ToJSON(body[k])]]]

(* the object pushed by the try block of the batch loop; idx is the        *)
(* position of the resume in the upload (history)                          *)
SuccessResult(rq, llmResult) ==
  [idx |-> rq.i, resume_name |-> rq.files[rq.i], candidate_name |-> rq.name,
   email |-> Contacts(rq.text).email, phone |-> Contacts(rq.text).phone,
   linkedin |-> Contacts(rq.text).linkedin,
   match_score |-> llmResult.match_score,
   seniority_fit |-> llmResult.seniority_fit, summary |-> llmResult.summary]

(* the object the single-pair endpoint sends: no resume_name *)
SingleResult(rq, llmResult) ==
  [idx |-> 1, resume_name |-> "", candidate_name |-> rq.name,
   email |-> Contacts(rq.text).email, phone |-> Contacts(rq.text).phone,
   linkedin |-> Contacts(rq.text).linkedin,
   match_score |-> llmResult.match_score,
   seniority_fit |-> llmResult.seniority_fit, summary |-> llmResult.summary]

(* scoreResumeWithLLM after extractJSON: result.match_score is replaced by *)
(* its coerced value, the other fields are the provider's                  *)
ScoreResumeWithLLM(result) == [result EXCEPT !.match_score = CoerceScore(@)]

FailureResultNoReason(rq, msg) ==
  [idx |-> rq.i, resume_name |-> rq.files[rq.i], candidate_name |-> Unknown,
   email |-> Dash, phone |-> Dash, linkedin |-> Dash,
   match_score |-> 0, seniority_fit |-> "Weak", summary |-> ErrStatus]

FailureResultKeepsEntities(rq, msg) ==
  [idx |-> rq.i, resume_name |-> rq.files[rq.i],
   candidate_name |-> IF rq.name = NoName THEN Unknown ELSE rq.name,
   email |-> Contacts(rq.text).email, phone |-> Contacts(rq.text).phone,
   linkedin |-> Contacts(rq.text).linkedin,
   match_score |-> 0, seniority_fit |-> "Weak", summary |-> msg]

(* the object pushed by the catch block of the batch loop *)
FailureResult(rq, msg) ==
  [idx |-> rq.i, resume_name |-> rq.files[rq.i], candidate_name |-> Unknown,
   email |-> Dash, phone |-> Dash, linkedin |-> Dash,
   match_score |-> 0, seniority_fit |-> "Weak", summary |-> msg]

NextResumeReparsesJD(rq, result) ==
  LET rs == Append(rq.results, result)
  IN  IF rq.i = Len(rq.files)
      THEN Respond(rq, 200, SortResults(rs), <<>>)
      ELSE [rq EXCEPT !.results = rs, !.i = @ + 1, !.pc = "jd",
                      !.text = "", !.llm = NoName, !.name = NoName,
                      !.inbox = "none", !.from = "none"]

(* end of one iteration of for (const resumeFile of resumeFiles): the      *)
(* result is pushed; after the last resume results.sort and res.json       *)
NextResume(rq, result) ==
  LET rs == Append(rq.results, result)
  IN  IF rq.i = Len(rq.files)
      THEN Respond(rq, 200, SortResults(rs), <<>>)
      ELSE [rq EXCEPT !.results = rs, !.i = @ + 1, !.pc = "resume",
                      !.text = "", !.llm = NoName, !.name = NoName,
                      !.inbox = "none", !.from = "none"]

StepFailedAborts(rq, msg) == Respond(rq, 500, <<>>, <<>>)

(* a step of resume i threw: batch catch block, or the single-pair         *)
(* endpoint's catch, which answers 500                                     *)
StepFailed(rq, msg) ==
  IF rq.kind = "batch" THEN NextResume(rq, FailureResult(rq, msg))
  ELSE Respond(rq, 500, <<>>, <<>>)

(* extractEntities: if (!name) name = extractNameRegex(text); then         *)
(* candidate_name: name || 'Unknown'                                       *)
CandidateName(llmName, text) ==
  LET name == IF Truthy(llmName) THEN llmName ELSE ExtractNameRegex(text)
  IN  IF Truthy(name) THEN name ELSE Unknown

Range(s) == {s[k] : k \in 1..Len(s)}

FileSeqs(n) == UNION {[1..k -> Range(world.names)] : k \in 0..n}

RECURSIVE DocsIn(_)
DocsIn(rs) == IF rs = {} THEN 0
              ELSE LET r == CHOOSE x \in rs : TRUE
                   IN  req[r].n + DocsIn(rs \ {r})

(* resume documents the model may still upload *)
DocsLeft == world.docs - DocsIn(Requests)

(* file lists that use the names in their order of first use, where the   *)
(* names are interchangeable                                               *)
InOrder(files) ==
  world.alike =>
  \A k \in 1..Len(files) : \A j \in 1..Len(world.names) :
    files[k] = world.names[j] =>
      \A h \in 1..(j - 1) : world.names[h] \in uploaded \cup {files[m] : m \in 1..(k - 1)}

Uploads(n) == {files \in FileSeqs(n) : InOrder(files)}

Init ==
  /\ requestQueue = <<>>
  /\ isProcessing = FALSE
  /\ inFlight = {}
  /\ timers = <<>>
  /\ nameCache = [f \in CacheKeys |-> NoName]
  /\ req = [r \in Requests |-> NewRequest]
  /\ uploaded = {}
  /\ world = FullWorld
  /\ raw = Missing
  /\ out = -1
  /\ ent = NoEntities
  /\ boot = Running
  /\ reply = NoReply
  /\ ui = IdleUI

SubmitBatchNoJDCheck(r) ==
  /\ "batch" \in world.clients[r]
  /\ req[r].pc = "new"
  /\ \E files \in Uploads(DocsLeft), hasJD \in BOOLEAN :
       LET rq == [req[r] EXCEPT !.kind = "batch", !.files = files, !.n = Len(files),
                                !.jd = hasJD]
       IN  /\ req' = [req EXCEPT ![r] =
                     IF Len(files) = 0
                     THEN Respond(rq, 400, <<>>, <<>>)
                     ELSE [rq EXCEPT !.pc = "jd"]]
           /\ uploaded' = uploaded \cup Range(files)
  /\ UNCHANGED <<throttleVars, nameCache, inputVars>>

(* POST /api/batch-match arrives: the validation of the uploaded files *)
SubmitBatch(r) ==
  /\ "batch" \in world.clients[r]
  /\ req[r].pc = "new"
  /\ \E files \in Uploads(DocsLeft), hasJD \in BOOLEAN :
       LET rq == [req[r] EXCEPT !.kind = "batch", !.files = files, !.n = Len(files),
                                !.jd = hasJD]
       IN  /\ req' = [req EXCEPT ![r] =
                     IF Len(files) = 0 \/ ~hasJD
                     THEN Respond(rq, 400, <<>>, <<>>)
                     ELSE [rq EXCEPT !.pc = "jd"]]
           /\ uploaded' = uploaded \cup Range(files)
  /\ UNCHANGED <<throttleVars, nameCache, inputVars>>

(* POST /api/match arrives *)
SubmitSingle(r) ==
  /\ "single" \in world.clients[r]
  /\ req[r].pc = "new"
  /\ \E files \in Uploads(Min(1, DocsLeft)), hasJD \in BOOLEAN :
       LET rq == [req[r] EXCEPT !.kind = "single", !.files = files, !.n = Len(files),
                                !.jd = hasJD]
       IN  /\ req' = [req EXCEPT ![r] =
                     IF Len(files) = 0 \/ ~hasJD
                     THEN Respond(rq, 400, <<>>, <<>>)
                     ELSE [rq EXCEPT !.pc = "resume", !.i = 1]]
           /\ uploaded' = uploaded \cup Range(files)
  /\ UNCHANGED <<throttleVars, nameCache, inputVars>>

(* extractEntities -> extractNameWithLLM up to the first await that        *)
(* suspends: on a cache hit the name is returned, extractEntities          *)
(* completes and scoreResumeWithLLM enqueues its call; on a miss the name  *)
(* call is enqueued                                                        *)
ExtractEntitiesNoCache(r, rq) ==
  LET th == RateLimitedFetch(Th, r, "name")
  IN  /\ req' = [req EXCEPT ![r] =
                   [rq EXCEPT !.pc = "name", !.inbox = "none", !.from = "none",
                              !.llm = NoName, !.name = NoName]]
      /\ SetThrottle(th)
      /\ UNCHANGED nameCache

ExtractEntitiesEager(r, rq) ==
  LET cached == CacheGet(nameCache, rq.files[rq.i])
      kind == IF Truthy(cached) THEN "score" ELSE "name"
      th == IF kind = "name"
            THEN RateLimitedFetch(RateLimitedFetch(Th, r, "name"), r, "score")
            ELSE RateLimitedFetch(Th, r, kind)
  IN  /\ req' = [req EXCEPT ![r] =
                   [rq EXCEPT !.pc = kind, !.inbox = "none", !.from = "none",
                              !.llm = IF Truthy(cached) THEN cached ELSE NoName,
                              !.name = IF Truthy(cached)
                                       THEN CandidateName(cached, rq.text)
                                       ELSE NoName]]
      /\ SetThrottle(th)
      /\ UNCHANGED nameCache

ExtractEntities(r, rq) ==
  LET cached == CacheGet(nameCache, rq.files[rq.i])
      kind == IF Truthy(cached) THEN "score" ELSE "name"
      th == RateLimitedFetch(Th, r, kind)
  IN  /\ req' = [req EXCEPT ![r] =
                   [rq EXCEPT !.pc = kind, !.inbox = "none", !.from = "none",
                              !.llm = IF Truthy(cached) THEN cached ELSE NoName,
                              !.name = IF Truthy(cached)
                                       THEN CandidateName(cached, rq.text)
                                       ELSE NoName]]
      /\ SetThrottle(th)
      /\ UNCHANGED nameCache

PdfParseJDInsideLoop(r) ==
  /\ req[r].pc = "jd"
  /\ \E ok \in BOOLEAN :
       IF ~ok
       THEN /\ req' = [req EXCEPT ![r] =
                       IF @.kind = "batch"
                       THEN NextResume([@ EXCEPT !.i = 1],
                                       FailureResult([@ EXCEPT !.i = 1], ErrPdf))
                       ELSE Respond(@, 500, <<>>, <<>>)]
            /\ UNCHANGED <<throttleVars, nameCache>>
       ELSE IF req[r].kind = "batch"
       THEN /\ req' = [req EXCEPT ![r] = [@ EXCEPT !.pc = "resume", !.i = 1]]
            /\ UNCHANGED <<throttleVars, nameCache>>
       ELSE ExtractEntities(r, req[r])
  /\ UNCHANGED scoreVars

(* pdfParse(jdFile.buffer) settles *)
PdfParseJD(r) ==
  /\ req[r].pc = "jd"
  /\ \E ok \in BOOLEAN :
       IF ~ok
       THEN /\ req' = [req EXCEPT ![r] = Respond(@, 500, <<>>, <<>>)]
            /\ UNCHANGED <<throttleVars, nameCache>>
       ELSE IF req[r].kind = "batch"
       THEN /\ req' = [req EXCEPT ![r] = [@ EXCEPT !.pc = "resume", !.i = 1]]
            /\ UNCHANGED <<throttleVars, nameCache>>
       ELSE ExtractEntities(r, req[r])
  /\ UNCHANGED scoreVars

(* pdfParse(resumeFile.buffer) settles *)
PdfParseResume(r) ==
  /\ req[r].pc = "resume"
  /\ \/ /\ req' = [req EXCEPT ![r] = StepFailed(@, ErrPdf)]
        /\ UNCHANGED <<throttleVars, nameCache>>
     \/ \E text \in world.texts :
          IF req[r].kind = "batch"
          THEN ExtractEntities(r, [req[r] EXCEPT !.text = text])
          ELSE /\ req' = [req EXCEPT ![r] = [@ EXCEPT !.text = text, !.pc = "jd"]]
               /\ UNCHANGED <<throttleVars, nameCache>>
  /\ UNCHANGED scoreVars

FetchSettleReleasesEarly ==
  /\ \E task \in inFlight, o \in world.fetch :
       /\ inFlight' = inFlight \ {task}
       /\ timers' = Append(timers, REQUEST_DELAY)
       /\ isProcessing' = FALSE
       /\ req' = [req EXCEPT ![task.owner] = [@ EXCEPT !.inbox = o, !.from = task.kind]]
  /\ UNCHANGED <<requestQueue, nameCache, scoreVars>>

FetchSettleNoFinally ==
  /\ \E task \in inFlight, o \in world.fetch :
       /\ inFlight' = inFlight \ {task}
       /\ timers' = IF o = "rejected" THEN timers ELSE Append(timers, REQUEST_DELAY)
       /\ req' = [req EXCEPT ![task.owner] = [@ EXCEPT !.inbox = o, !.from = task.kind]]
  /\ UNCHANGED <<requestQueue, isProcessing, nameCache, scoreVars>>

FetchSettleOrTimeout ==
  /\ \E task \in inFlight, o \in world.fetch \cup {"timeout"} :
       IF o = "timeout"
       THEN /\ timers = <<>>
            /\ timers' = Append(timers, REQUEST_DELAY)
            /\ UNCHANGED <<inFlight, req>>
       ELSE /\ inFlight' = inFlight \ {task}
            /\ timers' = IF timers = <<>> THEN Append(timers, REQUEST_DELAY) ELSE timers
            /\ req' = [req EXCEPT ![task.owner] = [@ EXCEPT !.inbox = o, !.from = task.kind]]
  /\ UNCHANGED <<requestQueue, isProcessing, nameCache, scoreVars>>

(* the fetch of the task in flight settles: resolve / reject of the        *)
(* caller's promise, then the finally block of processQueue arms the       *)
(* delay timer                                                             *)
FetchSettle ==
  /\ \E task \in inFlight, o \in world.fetch :
       /\ inFlight' = inFlight \ {task}
       /\ timers' = Append(timers, REQUEST_DELAY)
       /\ req' = [req EXCEPT ![task.owner] = [@ EXCEPT !.inbox = o, !.from = task.kind]]
  /\ UNCHANGED <<requestQueue, isProcessing, nameCache, scoreVars>>

DelayFireNoRestart ==
  /\ timers # <<>>
  /\ SetThrottle([Th EXCEPT !.timers = Tail(@), !.isProcessing = FALSE])
  /\ UNCHANGED <<nameCache, req, scoreVars>>

(* the delay timer fires: isProcessing = false; processQueue() *)
DelayFire ==
  /\ timers # <<>>
  /\ SetThrottle(ProcessQueue([Th EXCEPT !.timers = Tail(@), !.isProcessing = FALSE]))
  /\ UNCHANGED <<nameCache, req, scoreVars>>

(* extractNameWithLLM returns llmName (NoName for null): the cache write   *)
(* was made if it is a name; extractEntities completes and                 *)
(* scoreResumeWithLLM runs up to its rateLimitedFetch                      *)
NameReturnedAlwaysWrites(r, llmName) ==
  LET rq == req[r]
      th == RateLimitedFetch(Th, r, "score")
  IN  /\ nameCache' = [nameCache EXCEPT ![rq.files[rq.i]] =
                         IF Truthy(llmName) THEN llmName ELSE NoName]
      /\ req' = [req EXCEPT ![r] =
                   [rq EXCEPT !.pc = "score", !.inbox = "none", !.from = "none",
                              !.llm = llmName,
                              !.name = CandidateName(llmName, rq.text)]]
      /\ SetThrottle(th)

NameReturnedNoWrite(r, llmName) ==
  LET rq == req[r]
      th == RateLimitedFetch(Th, r, "score")
  IN  /\ nameCache' = nameCache
      /\ req' = [req EXCEPT ![r] =
                   [rq EXCEPT !.pc = "score", !.inbox = "none", !.from = "none",
                              !.llm = llmName,
                              !.name = CandidateName(llmName, rq.text)]]
      /\ SetThrottle(th)

NameReturned(r, llmName) ==
  LET rq == req[r]
      th == RateLimitedFetch(Th, r, "score")
  IN  /\ nameCache' = IF Truthy(llmName)
                      THEN [nameCache EXCEPT ![rq.files[rq.i]] = llmName]
                      ELSE nameCache
      /\ req' = [req EXCEPT ![r] =
                   [rq EXCEPT !.pc = "score", !.inbox = "none", !.from = "none",
                              !.llm = llmName,
                              !.name = CandidateName(llmName, rq.text)]]
      /\ SetThrottle(th)

(* extractNameWithLLM resumes after its rateLimitedFetch: the catch block  *)
(* on a rejection, return null on a non-success status, else the content   *)
(* of the response is read                                                 *)
NameDoneThrows(r) ==
  /\ req[r].pc = "name"
  /\ \/ /\ req[r].inbox = "rejected"
        /\ req' = [req EXCEPT ![r] = StepFailed(@, ErrFetch)]
        /\ UNCHANGED <<throttleVars, nameCache>>
     \/ /\ req[r].inbox = "notok"
        /\ NameReturned(r, NoName)
     \/ /\ req[r].inbox = "ok"
        /\ \E resp \in world.name :
             NameReturned(r, IF resp.form = "json" /\ resp.name # Unknown
                             THEN resp.name ELSE NoName)
  /\ UNCHANGED scoreVars

NameDone(r) ==
  /\ req[r].pc = "name"
  /\ \/ /\ req[r].inbox \in {"rejected", "notok"}
        /\ NameReturned(r, NoName)
     \/ /\ req[r].inbox = "ok"
        /\ \E resp \in world.name :
             NameReturned(r, IF resp.form = "json" /\ resp.name # Unknown
                             THEN resp.name ELSE NoName)
  /\ UNCHANGED scoreVars

ScoreDoneEvicts(r) ==
  /\ req[r].pc = "score"
  /\ \/ /\ req[r].inbox \in {"rejected", "notok"}
        /\ req' = [req EXCEPT ![r] = StepFailed(@, ErrStatus)]
        /\ nameCache' = [nameCache EXCEPT ![req[r].files[req[r].i]] = NoName]
     \/ /\ req[r].inbox = "ok"
        /\ \E resp \in world.score :
             LET rq == req[r]
             IN  /\ req' = [req EXCEPT ![r] =
                       IF resp.form # "json" THEN StepFailed(rq, ErrJson)
                       ELSE IF rq.kind = "batch"
                         THEN NextResume(rq, SuccessResult(rq, ScoreResumeWithLLM(resp.reply)))
                       ELSE Respond(rq, 200, <<>>, <<SingleResult(rq, ScoreResumeWithLLM(resp.reply))>>)]
                 /\ nameCache' = IF resp.form # "json"
                                 THEN [nameCache EXCEPT ![rq.files[rq.i]] = NoName]
                                 ELSE nameCache
  /\ UNCHANGED <<throttleVars, scoreVars>>

(* scoreResumeWithLLM resumes after its rateLimitedFetch and reads the     *)
(* response; the handler pushes the result (batch) or answers (single)     *)
ScoreDone(r) ==
  /\ req[r].pc = "score"
  /\ \/ /\ req[r].inbox = "rejected"
        /\ req' = [req EXCEPT ![r] = StepFailed(@, ErrFetch)]
     \/ /\ req[r].inbox = "notok"
        /\ \E body \in world.errors :
             req' = [req EXCEPT ![r] = StepFailed(@, StatusError(body))]
     \/ /\ req[r].inbox = "ok"
        /\ \E resp \in world.score :
             LET rq == req[r]
             IN  req' = [req EXCEPT ![r] =
                   IF resp.form = "nojson" THEN StepFailed(rq, ErrJson)
                   ELSE IF resp.form = "badjson" THEN StepFailed(rq, ErrParse)
                   ELSE IF rq.kind = "batch"
                     THEN NextResume(rq, SuccessResult(rq, ScoreResumeWithLLM(resp.reply)))
                   ELSE Respond(rq, 200, <<>>, <<SingleResult(rq, ScoreResumeWithLLM(resp.reply))>>)]
  /\ UNCHANGED <<throttleVars, nameCache, scoreVars>>

Next ==
  \/ \E r \in Requests : SubmitBatch(r)
  \/ \E r \in Requests : SubmitSingle(r)
  \/ \E r \in Requests : PdfParseJD(r)
  \/ \E r \in Requests : PdfParseResume(r)
  \/ FetchSettle
  \/ DelayFire
  \/ \E r \in Requests : NameDone(r)
  \/ \E r \in Requests : ScoreDone(r)

Spec == Init /\ [][Next]_vars

(* the same server receiving uploads named "constructor" *)
InitNames ==
  /\ requestQueue = <<>>
  /\ isProcessing = FALSE
  /\ inFlight = {}
  /\ timers = <<>>
  /\ nameCache = [f \in CacheKeys |-> NoName]
  /\ req = [r \in Requests |-> NewRequest]
  /\ uploaded = {}
  /\ world = NamesWorld
  /\ raw = Missing
  /\ out = -1
  /\ ent = NoEntities
  /\ boot = Running
  /\ reply = NoReply
  /\ ui = IdleUI

SpecNames == InitNames /\ [][Next]_vars

(* the same server under the heavier load *)
InitLoad ==
  /\ requestQueue = <<>>
  /\ isProcessing = FALSE
  /\ inFlight = {}
  /\ timers = <<>>
  /\ nameCache = [f \in CacheKeys |-> NoName]
  /\ req = [r \in Requests |-> NewRequest]
  /\ uploaded = {}
  /\ world = LoadWorld
  /\ raw = Missing
  /\ out = -1
  /\ ent = NoEntities
  /\ boot = Running
  /\ reply = NoReply
  /\ ui = IdleUI

SpecLoad == InitLoad /\ [][Next]_vars

InitCalm ==
  /\ requestQueue = <<>>
  /\ isProcessing = FALSE
  /\ inFlight = {}
  /\ timers = <<>>
  /\ nameCache = [f \in CacheKeys |-> NoName]
  /\ req = [r \in Requests |-> NewRequest]
  /\ uploaded = {}
  /\ world = CalmWorld
  /\ raw = Missing
  /\ out = -1
  /\ ent = NoEntities
  /\ boot = Running
  /\ reply = NoReply
  /\ ui = IdleUI

SpecCalm == InitCalm /\ [][Next]_vars

InitErrors ==
  /\ requestQueue = <<>>
  /\ isProcessing = FALSE
  /\ inFlight = {}
  /\ timers = <<>>
  /\ nameCache = [f \in CacheKeys |-> NoName]
  /\ req = [r \in Requests |-> NewRequest]
  /\ uploaded = {}
  /\ world \in {ErrorsWorld(body) : body \in ErrorBodies}
  /\ raw = Missing
  /\ out = -1
  /\ ent = NoEntities
  /\ boot = Running
  /\ reply = NoReply
  /\ ui = IdleUI

SpecErrors == InitErrors /\ [][Next]_vars

InitContacts ==
  /\ requestQueue = <<>>
  /\ isProcessing = FALSE
  /\ inFlight = {}
  /\ timers = <<>>
  /\ nameCache = [f \in CacheKeys |-> NoName]
  /\ req = [r \in Requests |-> NewRequest]
  /\ uploaded = {}
  /\ world = ContactsWorld
  /\ raw = Missing
  /\ out = -1
  /\ ent = NoEntities
  /\ boot = Running
  /\ reply = NoReply
  /\ ui = IdleUI

SpecContacts == InitContacts /\ [][Next]_vars

(* every started fetch settles and every armed timer fires *)
SpecFair == InitLoad /\ [][Next]_vars /\ WF_vars(FetchSettle) /\ WF_vars(DelayFire)

(***************************************************************************)
(* The score coercion alone: one provider value, coerced once.             *)
(***************************************************************************)
Exponents == {-7, -1, 0, 1, 21}

RawStrings ==
  { <<"N", "/", "A">>, <<"8", "5">>, <<"8", "5", "%">>, <<" ", "4", "2">>,
    <<"-", "7">>, <<"0">>, <<>> }

RawScores ==
  {Num(m, e) : m \in {k \in (-MaxMant)..MaxMant : k % 10 # 0}, e \in Exponents}
    \cup {Num(0, 0), Missing} \cup {Str(c) : c \in RawStrings}

InitScore ==
  /\ requestQueue = <<>>
  /\ isProcessing = FALSE
  /\ inFlight = {}
  /\ timers = <<>>
  /\ nameCache = [f \in CacheKeys |-> NoName]
  /\ req = [r \in Requests |-> NewRequest]
  /\ uploaded = {}
  /\ world = FullWorld
  /\ raw \in RawScores
  /\ out = -1
  /\ ent = NoEntities
  /\ boot = Running
  /\ reply = NoReply
  /\ ui = IdleUI

(* result.match_score = Math.max(0, Math.min(100, parseInt(...) || 50)) *)
Coerce ==
  /\ out = -1
  /\ out' = CoerceScore(raw)
  /\ UNCHANGED <<throttleVars, nameCache, req, uploaded, world, raw, ent, boot, reply, ui>>

NextScore == Coerce

SpecScore == InitScore /\ [][NextScore]_vars

(***************************************************************************)
(* The contact fields alone: one text, its fields extracted once.          *)
(***************************************************************************)
InitEntities ==
  /\ requestQueue = <<>>
  /\ isProcessing = FALSE
  /\ inFlight = {}
  /\ timers = <<>>
  /\ nameCache = [f \in CacheKeys |-> NoName]
  /\ req = [r \in Requests |-> NewRequest]
  /\ uploaded = {}
  /\ world = FullWorld
  /\ raw = Missing
  /\ out = -1
  /\ boot = Running
  /\ reply = NoReply
  /\ ui = IdleUI
  /\ \E em \in EmailMatches, ph \in PhoneMatches, ls \in LineSeqs, li \in LinkedinMatches :
       /\ ~ph.null => ls = <<>>
       /\ ent = [NoEntities EXCEPT !.emailMatch = em, !.phoneMatch = ph,
                                   !.lines = ls, !.linkedinMatch = li]

(* the email, phone and linkedin fields of the object extractEntities      *)
(* returns                                                                 *)
ExtractContacts ==
  /\ ~ent.done
  /\ ent' = [ent EXCEPT !.done = TRUE,
                        !.email = ExtractEmail(ent.emailMatch),
                        !.phone = ExtractPhones(ent.phoneMatch, ent.lines),
                        !.linkedin = ExtractLinkedin(ent.linkedinMatch)]
  /\ UNCHANGED <<throttleVars, nameCache, req, uploaded, world, raw, out, boot, reply, ui>>

NextEntities == ExtractContacts

SpecEntities == InitEntities /\ [][NextEntities]_vars

(***************************************************************************)
(* The startup of the process and the requests it builds once serving.     *)
(***************************************************************************)
InitBoot ==
  /\ requestQueue = <<>>
  /\ isProcessing = FALSE
  /\ inFlight = {}
  /\ timers = <<>>
  /\ nameCache = [f \in CacheKeys |-> NoName]
  /\ req = [r \in Requests |-> NewRequest]
  /\ uploaded = {}
  /\ world = FullWorld
  /\ raw = Missing
  /\ out = -1
  /\ ent = NoEntities
  /\ reply = NoReply
  /\ ui = IdleUI
  /\ \E k \in Keys, a \in AnthropicKeys, u \in BaseUrls, m \in Models :
       boot = Loading(Env(k, a, u, m))

(* server.js runs from its first line: the constants, detectProvider, the  *)
(* configuration check with process.exit(1), and app.listen at its end     *)
Startup ==
  /\ boot.phase = "load"
  /\ LET apiKey == Or(boot.env.OPENAI_API_KEY, boot.env.ANTHROPIC_API_KEY)
         baseUrl == boot.env.OPENAI_BASE_URL
         model == boot.env.OPENAI_MODEL
     IN  boot' = [boot EXCEPT !.API_KEY = apiKey, !.BASE_URL = baseUrl, !.MODEL = model,
                              !.PROVIDER = DetectProvider(baseUrl),
                              !.phase = IF ConfigMissing(apiKey, baseUrl, model)
                                        THEN "exited" ELSE "serving"]
  /\ UNCHANGED <<throttleVars, nameCache, req, uploaded, world, raw, out, ent, reply, ui>>

(* extractNameWithLLM builds its request *)
BuildNameRequest ==
  /\ boot.phase = "serving"
  /\ boot' = [boot EXCEPT !.wire = NameRequest(boot.PROVIDER, boot.API_KEY,
                                               boot.BASE_URL, boot.MODEL)]
  /\ UNCHANGED <<throttleVars, nameCache, req, uploaded, world, raw, out, ent, reply, ui>>

(* scoreResumeWithLLM builds its request *)
BuildScoreRequest ==
  /\ boot.phase = "serving"
  /\ boot' = [boot EXCEPT !.wire = ScoreRequest(boot.PROVIDER, boot.API_KEY,
                                                boot.BASE_URL, boot.MODEL)]
  /\ UNCHANGED <<throttleVars, nameCache, req, uploaded, world, raw, out, ent, reply, ui>>

NextBoot == Startup \/ BuildNameRequest \/ BuildScoreRequest

SpecBoot == InitBoot /\ [][NextBoot]_vars

(***************************************************************************)
(* The response parsing on its own: a reply text, then the JSON object the *)
(* scoring call or the name call finds in it.                              *)
(***************************************************************************)
InitJson ==
  /\ requestQueue = <<>>
  /\ isProcessing = FALSE
  /\ inFlight = {}
  /\ timers = <<>>
  /\ nameCache = [f \in CacheKeys |-> NoName]
  /\ req = [r \in Requests |-> NewRequest]
  /\ uploaded = {}
  /\ world = FullWorld
  /\ raw = Missing
  /\ out = -1
  /\ ent = NoEntities
  /\ boot = Running
  /\ ui = IdleUI
  /\ \E text \in ReplyTexts : reply = [NoReply EXCEPT !.text = text]

(* scoreResumeWithLLM: const result = extractJSON(content) *)
ParseScoreReply ==
  /\ reply.by = "none"
  /\ LET res == ExtractJSON(reply.text)
     IN  reply' = [reply EXCEPT !.by = "score", !.ok = res.ok, !.obj = res.obj,
                                !.err = res.err]
  /\ UNCHANGED <<throttleVars, nameCache, req, uploaded, world, raw, out, ent, boot, ui>>

(* extractNameWithLLM: content.match(...) and JSON.parse(match[0]) *)
ParseNameReply ==
  /\ reply.by = "none"
  /\ LET res == NameJSON(reply.text)
     IN  reply' = [reply EXCEPT !.by = "name", !.ok = res.ok, !.obj = res.obj,
                                !.err = res.err]
  /\ UNCHANGED <<throttleVars, nameCache, req, uploaded, world, raw, out, ent, boot, ui>>

NextJson == ParseScoreReply \/ ParseNameReply

SpecJson == InitJson /\ [][NextJson]_vars

(***************************************************************************)
(* The upload page on its own: the user's events and the replies to the    *)
(* batch calls of the process handler.                                     *)
(***************************************************************************)
serverVars == <<throttleVars, nameCache, req, uploaded, world, raw, out, ent, boot, reply>>

InitPage ==
  /\ requestQueue = <<>>
  /\ isProcessing = FALSE
  /\ inFlight = {}
  /\ timers = <<>>
  /\ nameCache = [f \in CacheKeys |-> NoName]
  /\ req = [r \in Requests |-> NewRequest]
  /\ uploaded = {}
  /\ world = FullWorld
  /\ raw = Missing
  /\ out = -1
  /\ ent = NoEntities
  /\ boot = Running
  /\ reply = NoReply
  /\ \E disabled \in BOOLEAN, c \in ClearDisplays, d \in Displays, st \in Displays :
       ui = PageLoaded(disabled, c, d, st)

(* resumeInput 'change': resumes = Array.from(e.target.files);             *)
(* renderFileList; updateProcessButton()                                   *)
ResumeChange ==
  /\ \E n \in 0..MaxFiles :
       ui' = UpdateProcessButton([ui EXCEPT !.resumes = n, !.resumeInput = n,
                                            !.resumeFileList = n, !.last = "resumes"])
  /\ UNCHANGED serverVars

(* jdInput 'change' *)
JdChange ==
  /\ \E n \in 0..MaxFiles :
       ui' = UpdateProcessButton([ui EXCEPT !.jds = n, !.jdInput = n,
                                            !.jdFileList = n, !.last = "jds"])
  /\ UNCHANGED serverVars

(* clearBtn 'click'; the button can be clicked while it is displayed *)
ClearClick ==
  /\ ui.clearDisplay # "none"
  /\ ui' = UpdateProcessButton([ui EXCEPT !.resumes = 0, !.jds = 0,
                                          !.resumeInput = 0, !.jdInput = 0,
                                          !.resumeFileList = 0, !.jdFileList = 0,
                                          !.rows = 0, !.resultsDisplay = "none",
                                          !.statusDisplay = "none", !.last = "clear"])
  /\ UNCHANGED serverVars

(* processBtn 'click', down to the first await; a disabled button gets no  *)
(* click                                                                   *)
ProcessClick ==
  /\ ~ui.processDisabled
  /\ Len(ui.runs) < MaxRuns
  /\ ui' = StartBatches([ui EXCEPT !.rows = 0, !.resultsDisplay = "none",
                                   !.statusDisplay = "block", !.last = "process"],
                        ui.runs, ui.jds)
  /\ UNCHANGED serverVars

(* the fetch of processBatch settles: a 200 reply has one ranked result    *)
(* for each resume sent, anything else throws into the handler's catch     *)
BatchReply ==
  /\ \E k \in 1..Len(ui.runs), ok \in BOOLEAN :
       LET run == ui.runs[k]
           rest == Without(ui.runs, k)
       IN  IF ok /\ run.sent > 0
           THEN /\ ui.rows + run.sent <= MaxRows
                /\ ui' = StartBatches([ui EXCEPT !.rows = @ + run.sent, !.last = "reply"],
                                      rest, run.left - 1)
           ELSE ui' = [ui EXCEPT !.statusText = "Error during processing",
                                 !.runs = rest, !.last = "reply"]
  /\ UNCHANGED serverVars

NextPage == ResumeChange \/ JdChange \/ ClearClick \/ ProcessClick \/ BatchReply

SpecPage == InitPage /\ [][NextPage]_vars

(***************************************************************************)
(* Properties.                                                             *)
(***************************************************************************)
Batches == {r \in Requests : req[r].kind = "batch"}
Singles == {r \in Requests : req[r].kind = "single"}
Answered(r) == req[r].pc = "done" /\ req[r].response.status = 200
Ranked(r) == req[r].response.ranked_results

(* the batch has its job-description text and is working on its resumes *)
InLoop(r) == req[r].kind = "batch" /\ req[r].pc \in {"resume", "name", "score"}

IsFailure(res) ==
  res.summary \in {ErrPdf, ErrFetch, ErrStatus, ErrJson, ErrParse, ErrProvider, ErrNull}

(* C1: a batch of N resumes whose job description was read answers with    *)
(* exactly N ranked results, one per uploaded resume, whatever fails for   *)
(* the single resumes: the step that ends the loop sends status 200,       *)
(* total = N and one entry for each position 1..N of the upload, and in    *)
(* the loop one result is held for each resume already handled.            *)
C1_BatchSizeConserved ==
  [][\A r \in Requests :
       /\ InLoop(r)' => Len(req[r].results') = req[r].i' - 1 /\ req[r].i' <= req[r].n'
       /\ (InLoop(r) /\ req[r].pc' = "done") =>
            /\ req[r].response'.status = 200
            /\ req[r].response'.total = req[r].n
            /\ Len(Ranked(r)') = req[r].n
            /\ \A p \in 1..req[r].n :
                 Cardinality({k \in 1..Len(Ranked(r)') : Ranked(r)'[k].idx = p}) = 1]_vars

(* a batch of two resumes answered although one of them failed *)
C1_Witness ==
  \E r \in Batches :
    /\ Answered(r) /\ req[r].n = 2 /\ Len(Ranked(r)) = 2
    /\ \E k \in 1..2 : IsFailure(Ranked(r)[k])
    /\ \E k \in 1..2 : ~IsFailure(Ranked(r)[k])

(* the results a batch holds: its answer once sent, else the list so far *)
Held(rq) == IF rq.pc = "done" THEN rq.response.ranked_results ELSE rq.results

(* the step from old to new records the result of resume old.i *)
Records(old, new) ==
  /\ old.kind = "batch" /\ old.pc \in {"resume", "name", "score"}
  /\ new.pc = "done" \/ Len(new.results) = Len(old.results) + 1

FailureVariant(res, msg) ==
  res.match_score = 0 /\ res.seniority_fit = "Weak" /\ res.summary = msg

Recorded(old, new) ==
  LET res == CHOOSE x \in {Held(new)[k] : k \in 1..Len(Held(new))} : x.idx = old.i
  IN  /\ \E k \in 1..Len(Held(new)) : Held(new)[k].idx = old.i
      \* the step that failed decides the result
      /\ old.pc = "resume" => FailureVariant(res, ErrPdf)
      /\ (old.pc = "score" /\ old.inbox = "rejected") => FailureVariant(res, ErrFetch)
      /\ (old.pc = "score" /\ old.inbox = "notok") => FailureVariant(res, ErrStatus)
      /\ IsFailure(res) => res.match_score = 0 /\ res.seniority_fit = "Weak"
      \* the batch goes on
      /\ old.i < old.n => new.pc = "resume" /\ new.i = old.i + 1
      /\ old.i = old.n => new.pc = "done" /\ new.response.status = 200
      \* the results recorded before are kept as they were
      /\ \A k \in 1..Len(old.results) :
           \E j \in 1..Len(Held(new)) : Held(new)[j] = old.results[k]

(* C2: a failure of text extraction or of the scoring call for resume i    *)
(* of a batch is recorded as a failure-variant result (match_score 0,      *)
(* seniority_fit "Weak", the failure reason as summary); the batch is not  *)
(* aborted: the next resume is taken up, or after the last one the batch   *)
(* answers with status 200; the results recorded for the other resumes     *)
(* stay as their own scoring call produced them.                           *)
C2_FailureIsolated ==
  [][\A r \in Requests :
       Records(req[r], req'[r]) => Recorded(req[r], req'[r])]_vars

(* the scoring call of the first resume threw, the second resume was still *)
(* processed and kept the score of its own call                            *)
C2_Witness ==
  \E r \in Batches :
    /\ Answered(r) /\ Len(Ranked(r)) = 2
    /\ \E k \in 1..2 : Ranked(r)[k].idx = 1 /\ FailureVariant(Ranked(r)[k], ErrFetch)
    /\ \E k \in 1..2 : Ranked(r)[k].idx = 2 /\ Ranked(r)[k].match_score = 100

(* C3: the ranked_results of every batch answer are in non-increasing      *)
(* order of match_score, failure variants (score 0) included.              *)
C3_RankedDescending ==
  \A r \in Batches :
    Answered(r) =>
      \A k \in 1..(Len(Ranked(r)) - 1) :
        Ranked(r)[k].match_score >= Ranked(r)[k + 1].match_score

(* the first resume failed, the second scored higher and was moved ahead *)
C3_Witness ==
  \E r \in Batches :
    /\ Answered(r) /\ Len(Ranked(r)) = 2
    /\ Ranked(r)[1].idx = 2 /\ Ranked(r)[1].match_score > 0
    /\ Ranked(r)[2].idx = 1 /\ IsFailure(Ranked(r)[2])

(* C4: the ranking is stable: two results of a batch answer with the same  *)
(* match_score stand in the order in which their resumes were uploaded.    *)
C4_RankingStable ==
  \A r \in Batches :
    Answered(r) =>
      \A j, k \in 1..Len(Ranked(r)) :
        (j < k /\ Ranked(r)[j].match_score = Ranked(r)[k].match_score)
          => Ranked(r)[j].idx < Ranked(r)[k].idx

(* a failure variant and a success that the provider scored below zero tie *)
(* at 0 and keep their upload order                                        *)
C4_Witness ==
  \E r \in Batches :
    /\ Answered(r) /\ Len(Ranked(r)) = 2
    /\ Ranked(r)[1].match_score = Ranked(r)[2].match_score
    /\ IsFailure(Ranked(r)[1]) /\ ~IsFailure(Ranked(r)[2])

(* C5: every result of either endpoint, pushed or sent, has a match_score  *)
(* that is an integer from 0 to 100, whatever the provider replied.        *)
C5_ScoreInRange ==
  \A r \in Requests :
    /\ \A k \in 1..Len(Held(req[r])) : Held(req[r])[k].match_score \in 0..100
    /\ \A k \in 1..Len(req[r].response.body) :
         req[r].response.body[k].match_score \in 0..100

(* a batch answer holding a score clamped from above and a success clamped *)
(* from below, next to a single-pair answer                                *)
C5_Witness ==
  /\ \E r \in Batches :
       /\ Answered(r)
       /\ \E k \in 1..Len(Ranked(r)) : Ranked(r)[k].match_score = 100
  /\ \E r \in Singles :
       /\ Answered(r)
       /\ req[r].response.body[1].match_score = 0

Pow10(k) == IF k = 0 THEN 1 ELSE IF k = 1 THEN 10 ELSE IF k = 2 THEN 100 ELSE 1000

(* the number mant * 10^exp10 truncated toward zero, then clamped to 0..100 *)
TruncClamp(m, e) ==
  IF m <= 0 THEN 0
  ELSE IF e >= 3 THEN 100
  ELSE IF e >= 0 THEN Min(100, m * Pow10(e))
  ELSE IF e >= -3 THEN Min(100, m \div Pow10(-e))
  ELSE 0

(* parseInt(...) || 50 took the default *)
DefaultTaken(v) == ParseInt(v).nan \/ ParseInt(v).val = 0

(* C6: every numeric provider score is truncated to an integer and clamped *)
(* into 0..100 (150 gives 100, a negative score 0, a score of 0 gives 0),  *)
(* and the default 50 is taken only for a missing or non-numeric score.    *)
C6_NumericScoreTruncatedAndClamped ==
  (out # -1 /\ raw.t = "num") =>
    /\ out = TruncClamp(raw.mant, raw.exp10)
    /\ ~DefaultTaken(raw)

Tasks == [owner : Requests, kind : {"name", "score"}]
Started == inFlight' \ inFlight
Queued(r) == \E k \in 1..Len(requestQueue) : requestQueue[k].owner = r
Flying(r) == \E t \in inFlight : t.owner = r
Awaiting(r) == req[r].pc \in {"name", "score"} /\ req[r].inbox = "none"

(* C7: at most one provider call started by the throttle is in flight at   *)
(* any time, however many requests are running.                            *)
C7_SingleFlight == Cardinality(inFlight) <= 1

(* one call in flight while the calls of two other requests wait *)
C7_Witness ==
  /\ Cardinality(inFlight) = 1
  /\ Len(requestQueue) = 2
  /\ \E r \in Batches : Awaiting(r)
  /\ \E r \in Singles : Awaiting(r)

(* C8: tasks are started in the order in which they were enqueued, across  *)
(* requests: the queue only grows at its end, and the task a step starts   *)
(* is the oldest one waiting (or, with nothing waiting, the one just       *)
(* enqueued).                                                              *)
C8_StartedInEnqueueOrder ==
  [][/\ Cardinality(Started) <= 1
     /\ Started = {} =>
          \/ requestQueue' = requestQueue
          \/ \E x \in Tasks : requestQueue' = Append(requestQueue, x)
     /\ \A t \in Started :
          IF requestQueue = <<>> THEN requestQueue' = <<>>
          ELSE /\ t = Head(requestQueue)
               /\ \/ requestQueue' = Tail(requestQueue)
                  \/ \E x \in Tasks : requestQueue' = Append(Tail(requestQueue), x)]_vars

(* two tasks of two different requests wait behind the call of a third *)
C8_Witness ==
  /\ Len(requestQueue) = 2
  /\ requestQueue[1].owner # requestQueue[2].owner
  /\ \E t \in inFlight : t.owner \notin {requestQueue[1].owner, requestQueue[2].owner}

(* C9: when a throttled call settles, resolved or rejected, a timer of     *)
(* REQUEST_DELAY is armed, and no call is in flight while that delay is    *)
(* pending: a task enqueued during the delay waits for the timer.          *)
C9_DelayBetweenCalls ==
  /\ [](inFlight # {} => timers = <<>>)
  /\ [](\A k \in 1..Len(timers) : timers[k] = REQUEST_DELAY)
  /\ [][inFlight' # inFlight /\ inFlight' = {} =>
          timers' = Append(timers, REQUEST_DELAY)]_vars

(* a task was enqueued during the delay after a rejected call and waits *)
C9_Witness ==
  /\ timers # <<>>
  /\ inFlight = {}
  /\ requestQueue # <<>>
  /\ \E r \in Requests : req[r].inbox = "rejected"

(* C10: if every started call settles and every delay timer fires, every   *)
(* enqueued task is started and its caller's promise is settled, with the  *)
(* outcome of the call that caller awaits; a rejected call does not stop   *)
(* the tasks queued behind it.                                             *)
C10_EveryTaskRuns ==
  /\ \A r \in Requests : Queued(r) ~> Flying(r)
  /\ \A r \in Requests : Awaiting(r) ~> (req[r].inbox # "none")
  /\ [](\A r \in Requests : req[r].inbox # "none" => req[r].from = req[r].pc)

(* the call of one request was rejected and the call of another request,   *)
(* queued behind it, is in flight                                          *)
C10_Witness ==
  \E r1, r2 \in Requests :
    /\ r1 # r2
    /\ req[r1].inbox = "rejected"
    /\ Flying(r2)

(* the file whose name request rq is resolving, scoring or about to read *)
FileOf(rq) == rq.files[rq.i]

(* the step takes request r into extractEntities: its resume text was read *)
(* (batch) or its job description after the resume (single pair)           *)
EntersEntities(r) ==
  /\ \/ req[r].kind = "batch" /\ req[r].pc = "resume"
     \/ req[r].kind = "single" /\ req[r].pc = "jd"
  /\ req'[r].pc \in {"name", "score"}

(* the tasks the step puts on the throttle *)
Enqueued == (Range(requestQueue') \cup inFlight') \ (Range(requestQueue) \cup inFlight)

(* C11: when a request enters name resolution for a file whose name an     *)
(* earlier resolution obtained from the model and cached, the resolution   *)
(* returns the cached name at once: no name call is put on the throttle    *)
(* or started (the only task the step enqueues is the scoring call that    *)
(* follows), and the cache is left as it was.                              *)
C11_CacheHitNoCall ==
  [][\A r \in Requests :
       (EntersEntities(r) /\ nameCache[FileOf(req[r])] # NoName) =>
         /\ req'[r].llm = nameCache[FileOf(req[r])]
         /\ req'[r].name = nameCache[FileOf(req[r])]
         /\ req'[r].pc = "score"
         /\ \A t \in Enqueued : t.kind = "score"
         /\ \A t \in Range(requestQueue') \cup inFlight' :
              t.owner = r => t.kind = "score"
         /\ nameCache' = nameCache]_vars

(* the second resume of a batch has the file name of the first, whose name *)
(* the model resolved; it got that name although its own text holds        *)
(* another one, and is now being scored                                    *)
C11_Witness ==
  \E r \in Batches :
    /\ req[r].i = 2 /\ req[r].pc = "score"
    /\ req[r].files[1] = req[r].files[2]
    /\ req[r].results[1].candidate_name = "Ann Lee"
    /\ req[r].text = "Jane Doe\nEngineer"
    /\ req[r].llm = "Ann Lee" /\ req[r].name = "Ann Lee"

(* C12: whatever the outcome of the name call (rejected fetch, non-success *)
(* status, reply without JSON, unparseable JSON, a reply naming Unknown or *)
(* carrying an empty, null or missing name), extractEntities completes     *)
(* with a candidate name and the handler goes on to the scoring call: the  *)
(* resume is not failed and the request is not answered with an error.     *)
C12_EntitiesNeverFail ==
  [][\A r \in Requests :
       /\ (req[r].pc = "name" /\ req'[r].pc # "name") =>
            /\ req'[r].pc = "score"
            /\ Truthy(req'[r].name)
            /\ req'[r].i = req[r].i
            /\ req'[r].results = req[r].results
            /\ \E t \in Enqueued : t = [owner |-> r, kind |-> "score"]
       /\ EntersEntities(r) =>
            (req'[r].pc = "score" => Truthy(req'[r].name))]_vars

(* one request is being scored as Unknown after its name call gave no      *)
(* name, while the name call of another request has been rejected          *)
C12_Witness ==
  \E r1, r2 \in Requests :
    /\ req[r1].pc = "score" /\ req[r1].llm = NoName /\ req[r1].name = Unknown
    /\ req[r2].pc = "name" /\ req[r2].inbox = "rejected"

(* a name: a non-empty string, as opposed to null, undefined, "" and a     *)
(* function                                                                *)
IsName(v) == Truthy(v) /\ v # ObjectFn

(* the first of the tiers model, line scan that yields a name, else Unknown *)
FromModelOrScan(llmName, text) ==
  IF IsName(llmName) THEN llmName
  ELSE IF IsName(ExtractNameRegex(text)) THEN ExtractNameRegex(text)
  ELSE Unknown

(* C13: the candidate name is that of the first tier that yields a name,   *)
(* in the order cache, model, line scan, else Unknown: a resolution that   *)
(* does not call the model returns the name cached for the file, and one   *)
(* that calls it returns the model's name, else the name the line scan     *)
(* finds in the text, else Unknown.                                        *)
C13_FallbackChain ==
  [][\A r \in Requests :
       /\ (EntersEntities(r) /\ req'[r].pc = "score") =>
            /\ IsName(nameCache[FileOf(req[r])])
            /\ req'[r].name = nameCache[FileOf(req[r])]
       /\ (req[r].pc = "name" /\ req'[r].pc = "score") =>
            req'[r].name = FromModelOrScan(req'[r].llm, req[r].text)]_vars

(* C14: a batch submitted with no resume or without a job description is   *)
(* answered at once with status 400 and no ranked_results; the step reads  *)
(* no document, puts nothing on the throttle and leaves the name cache as  *)
(* it was; a batch goes on to read its job description only with both.     *)
C14_BatchValidation ==
  [][\A r \in Requests :
       (req[r].pc = "new" /\ req'[r].kind = "batch") =>
         /\ (req'[r].n = 0 \/ ~req'[r].jd) =>
              /\ req'[r].pc = "done"
              /\ req'[r].response.status = 400
              /\ req'[r].response.ranked_results = <<>>
              /\ req'[r].response.body = <<>>
              /\ requestQueue' = requestQueue /\ inFlight' = inFlight
              /\ isProcessing' = isProcessing /\ timers' = timers
              /\ nameCache' = nameCache
         /\ (req'[r].n > 0 /\ req'[r].jd) => req'[r].pc = "jd"]_vars

(* a batch of two resumes without job description and a batch with a job   *)
(* description and no resume were both refused, the cache still empty      *)
C14_Witness ==
  \E r1, r2 \in Batches :
    /\ req[r1].pc = "done" /\ req[r1].response.status = 400
    /\ req[r1].n = 2 /\ ~req[r1].jd
    /\ req[r2].pc = "done" /\ req[r2].response.status = 400
    /\ req[r2].n = 0 /\ req[r2].jd
    /\ \A f \in CacheKeys : nameCache[f] = NoName
    /\ requestQueue = <<>> /\ inFlight = {}

(* every result request r has produced: pushed in its loop or sent *)
ResultsOf(rq) ==
  Range(rq.results) \cup Range(rq.response.ranked_results) \cup Range(rq.response.body)

(* C16: the candidate_name of every result, pushed in a batch loop or sent *)
(* by either endpoint, success or failure variant, is a non-empty string:  *)
(* a name or "Unknown", never "", null or undefined (an absent field).     *)
C16_CandidateNameNeverEmpty ==
  \A r \in Requests : \A res \in ResultsOf(req[r]) :
    /\ res.candidate_name \notin {"", NoName, Undefined}
    /\ IsName(res.candidate_name)

(* the lookup nameCache[f] finds an entry for file name f *)
Hit(cache, f) == Truthy(CacheGet(cache, f))

(* the step completes a name call made for f whose reply names a candidate *)
ModelNamed(f) ==
  \E r \in Requests :
    /\ req[r].pc = "name" /\ req[r].inbox = "ok" /\ req[r].from = "name"
    /\ FileOf(req[r]) = f
    /\ req'[r].pc = "score"
    /\ IsName(req'[r].llm) /\ req'[r].llm # Unknown
    /\ CacheGet(nameCache', f) = req'[r].llm

(* C19: the cache holds no entry when the server starts, and it comes to   *)
(* hold (or to change) an entry for a file name only in a step in which a  *)
(* model-based name call made for that file name returned a name other     *)
(* than Unknown: never after a rejected call, a non-success status, a      *)
(* malformed reply, an Unknown reply or a name found by the line scan.     *)
C19_CacheOnlyFromModel ==
  /\ \A f \in CacheKeys : ~Hit(nameCache, f)
  /\ [][\A f \in CacheKeys :
          CacheGet(nameCache', f) # CacheGet(nameCache, f) => ModelNamed(f)]_vars

(* C20: once the lookup finds an entry for a file name it finds one in     *)
(* every later state: no step removes or clears an entry, whether a name   *)
(* call or a scoring call fails, a request is refused or answered with an  *)
(* error, or a batch ends.                                                 *)
C20_CacheMonotonic ==
  [][\A f \in CacheKeys : Hit(nameCache, f) => Hit(nameCache', f)]_vars

(* an entry is still held after a later name call for the same file was    *)
(* rejected, its resume then failed in scoring and its request was         *)
(* answered, and after another request was refused                         *)
C20_Witness ==
  /\ \E f \in FileNames : nameCache[f] # NoName
  /\ \E r \in Requests :
       /\ req[r].pc = "done" /\ req[r].response.status = 200
       /\ \E res \in ResultsOf(req[r]) : IsFailure(res)
  /\ \E r \in Requests : req[r].pc = "done" /\ req[r].response.status \in {400, 500}

(* no expression for the phone finds anything in the text *)
PhoneAbsent == ent.phoneMatch.null /\ \A k \in 1..Len(ent.lines) :
                 ent.lines[k].m1.null /\ ent.lines[k].m2.null

(* C15: a field whose pattern the text does not contain is the sentinel    *)
(* '—' (for the phone: neither the primary expression nor the secondary    *)
(* line scan finds a number), and no field is ever the empty string or     *)
(* undefined; a pattern that is present gives a field other than the       *)
(* sentinel.                                                               *)
C15_AbsentFieldIsSentinel ==
  ent.done =>
    /\ ent.emailMatch.null <=> ent.email = Dash
    /\ PhoneAbsent <=> ent.phone = Dash
    /\ ent.linkedinMatch.null <=> ent.linkedin = Dash
    /\ \A f \in {ent.email, ent.phone, ent.linkedin} : f \notin {<<>>, UndefinedField}

(* a text without email, phone and profile URL, whose lines the secondary  *)
(* phone scan went through, gave three sentinels                           *)
C15_Witness ==
  /\ ent.done
  /\ ent.emailMatch.null /\ ent.linkedinMatch.null /\ PhoneAbsent
  /\ Len(ent.lines) = 2
  /\ ent.email = Dash /\ ent.phone = Dash /\ ent.linkedin = Dash

Providers == {"ANTHROPIC", "OPENAI", "PERPLEXITY", "DEEPSEEK", "GROQ", "OLLAMA", "CUSTOM"}

HeaderNames(w) == {h[1] : h \in w.headers}

(* the request has the shape with the system prompt in a field of its own  *)
(* (scoring) and no message of role system, and carries the credential in  *)
(* the x-api-key header                                                    *)
AnthropicShape(w) ==
  /\ <<"x-api-key", "", boot.API_KEY>> \in w.headers
  /\ "Authorization" \notin HeaderNames(w)
  /\ \A k \in 1..Len(w.roles) : w.roles[k] # "system"
  /\ w.call = "score" => w.system

(* the request has its system prompt as the first message, of role system, *)
(* and carries the credential as a bearer token                            *)
ChatShape(w) ==
  /\ <<"Authorization", "Bearer", boot.API_KEY>> \in w.headers
  /\ "x-api-key" \notin HeaderNames(w)
  /\ w.roles = <<"system", "user">>
  /\ ~w.system

(* C17: every request a serving process builds has the shape and the       *)
(* credential header of the provider detected at startup: the shape with   *)
(* a separate system field and the x-api-key header exactly when PROVIDER  *)
(* is ANTHROPIC, the shape with a system-role message and a bearer         *)
(* credential for every other provider, CUSTOM included; and PROVIDER,     *)
(* once set at startup, never changes.                                     *)
C17_WireShapeByProvider ==
  /\ [](boot.wire.call # "none" =>
          /\ boot.PROVIDER \in Providers
          /\ boot.PROVIDER = "ANTHROPIC" <=> AnthropicShape(boot.wire)
          /\ boot.PROVIDER # "ANTHROPIC" <=> ChatShape(boot.wire))
  /\ [][boot.phase # "load" => boot'.PROVIDER = boot.PROVIDER]_vars

(* a process whose endpoint is none of the known hosts built a scoring     *)
(* request                                                                 *)
C17_Witness ==
  /\ boot.phase = "serving" /\ boot.PROVIDER = "CUSTOM"
  /\ boot.wire.call = "score"
  /\ boot.env.ANTHROPIC_API_KEY = "sk-ant" /\ boot.API_KEY = "sk-ant"

(* C18: a process that is serving has a credential, a base URL and a model *)
(* identifier; with any of them absent (or empty) the startup ends in      *)
(* process.exit and the process never serves.                              *)
C18_ConfigRequired ==
  /\ [](boot.phase = "serving" =>
          /\ IsSet(boot.env.OPENAI_API_KEY) \/ IsSet(boot.env.ANTHROPIC_API_KEY)
          /\ IsSetUrl(boot.env.OPENAI_BASE_URL)
          /\ IsSet(boot.env.OPENAI_MODEL)
          /\ IsSet(boot.API_KEY) /\ IsSetUrl(boot.BASE_URL) /\ IsSet(boot.MODEL))
  /\ [][boot.phase = "exited" => boot'.phase = "exited"]_vars
  /\ [][(boot.phase = "load" /\ boot'.phase # "load") =>
          (boot'.phase = "exited" <=>
             \/ ~(IsSet(boot.env.OPENAI_API_KEY) \/ IsSet(boot.env.ANTHROPIC_API_KEY))
             \/ ~IsSetUrl(boot.env.OPENAI_BASE_URL)
             \/ ~IsSet(boot.env.OPENAI_MODEL))]_vars

(* a process with key and endpoint but no model has exited *)
C18_Witness ==
  /\ boot.phase = "exited"
  /\ boot.env.OPENAI_API_KEY = "sk-openai"
  /\ boot.env.OPENAI_BASE_URL = UrlOpenAI
  /\ boot.env.OPENAI_MODEL = Undefined

(* the tasks of request r that wait in the queue or are in flight *)
Outstanding(r) ==
  Cardinality({k \in 1..Len(requestQueue) : requestQueue[k].owner = r})
    + Cardinality({t \in inFlight : t.owner = r})

(* C21: every provider call, of a name resolution or of a scoring, of a    *)
(* batch or of a single-pair request, is started by the throttle's worker  *)
(* from the queue: a call starts only in a step of processQueue (no other  *)
(* call in flight, the worker idle or its delay just expired), it is the   *)
(* task at the head of the queue or the one just pushed on the empty       *)
(* queue, and a caller that awaits a provider call has its task in the     *)
(* queue or in flight.                                                     *)
C21_AllCallsThroughThrottle ==
  /\ [](\A r \in Requests : Awaiting(r) =>
          \/ \E k \in 1..Len(requestQueue) :
               requestQueue[k] = [owner |-> r, kind |-> req[r].pc]
          \/ [owner |-> r, kind |-> req[r].pc] \in inFlight)
  /\ [](inFlight # {} => isProcessing)
  /\ [][\A t \in Started :
          /\ inFlight = {}
          /\ isProcessing'
          /\ \/ ~isProcessing /\ requestQueue = <<>> /\ requestQueue' = <<>>
             \/ isProcessing /\ timers # <<>> /\ requestQueue # <<>>
                  /\ t = Head(requestQueue)]_vars

(* the scoring call of a single-pair request is in flight while the name   *)
(* call of a batch waits in the queue                                      *)
C21_Witness ==
  /\ \E t \in inFlight : t.kind = "score" /\ req[t.owner].kind = "single"
  /\ \E k \in 1..Len(requestQueue) :
       requestQueue[k].kind = "name" /\ req[requestQueue[k].owner].kind = "batch"

(* C24: the throttle has no timeout: as long as a started call has not     *)
(* settled no other task is started, every queued task stays queued and    *)
(* its caller stays suspended, and a call leaves the in-flight state only  *)
(* by settling (its caller is handed the outcome).                         *)
C24_HungCallStallsQueue ==
  [][/\ \A t \in inFlight :
          IF t \in inFlight'
          THEN /\ Started = {}
               /\ \A k \in 1..Len(requestQueue) :
                    /\ requestQueue'[k] = requestQueue[k]
                    /\ Awaiting(requestQueue[k].owner)'
          ELSE /\ req'[t.owner].inbox # "none"
               /\ req'[t.owner].from = t.kind
     /\ \A r \in Requests :
          (Awaiting(r) /\ ~Awaiting(r)') =>
            \E t \in inFlight : t.owner = r /\ t \notin inFlight']_vars

(* a name call is in flight and the scoring calls of two other requests    *)
(* wait behind it, all three callers suspended                             *)
C24_Witness ==
  /\ \E t \in inFlight : t.kind = "name" /\ Awaiting(t.owner)
  /\ Len(requestQueue) = 2
  /\ \A k \in 1..2 : requestQueue[k].kind = "score" /\ Awaiting(requestQueue[k].owner)

(* C28: whenever the throttle is idle (isProcessing false) the queue is    *)
(* empty; isProcessing is true exactly while a call is in flight or the    *)
(* delay after a call is pending.                                          *)
C28_NoStranding ==
  /\ ~isProcessing => requestQueue = <<>>
  /\ isProcessing <=> (inFlight # {} \/ timers # <<>>)

(* a task was enqueued while the delay of the previous call was pending    *)
(* and a third request has been answered                                   *)
C28_Witness ==
  /\ isProcessing /\ inFlight = {} /\ timers # <<>>
  /\ Len(requestQueue) = 1
  /\ \E r \in Requests : Answered(r)

(* C30: a request has at most one task in the queue or in flight, so the   *)
(* tasks outstanding are no more than the requests awaiting a call; a      *)
(* name call is enqueued only on entering extractEntities, a scoring call  *)
(* only on a cache hit there or when the name call of the same resume has  *)
(* settled, and after its scoring call a resume enqueues nothing more:     *)
(* at most two throttled calls for a resume.                               *)
C30_OneTaskPerRequest ==
  /\ [](\A r \in Requests : Outstanding(r) <= 1)
  /\ [](Len(requestQueue) + Cardinality(inFlight)
          <= Cardinality({r \in Requests : req[r].pc \in {"name", "score"}}))
  /\ [][\A t \in Enqueued :
          LET r == t.owner
          IN  /\ Outstanding(r) = 0
              /\ t.kind = "name" => EntersEntities(r)
              /\ t.kind = "score" =>
                   \/ EntersEntities(r)
                   \/ /\ req[r].pc = "name" /\ req[r].inbox # "none"
                      /\ req[r].from = "name" /\ req'[r].i = req[r].i]_vars
  /\ [][\A r \in Requests :
          req[r].pc = "score" =>
            \/ req'[r] = req[r]
            \/ req'[r].pc = "score" /\ req'[r].i = req[r].i /\ Outstanding(r)' = 0
            \/ req'[r].pc = "resume" /\ req'[r].i = req[r].i + 1
            \/ req'[r].pc = "done"]_vars

(* the batch is at the scoring call of its second resume, whose name the   *)
(* model returned, while a single-pair request has its own call            *)
(* outstanding: two tasks for two requests                                 *)
C30_Witness ==
  /\ \E r \in Batches :
       /\ req[r].i = 2 /\ req[r].pc = "score" /\ Outstanding(r) = 1
       /\ req[r].files[1] # req[r].files[2]
       /\ req[r].llm = nameCache[req[r].files[2]] /\ req[r].llm # NoName
  /\ Cardinality({r \in Singles : Outstanding(r) = 1}) = 1
  /\ Len(requestQueue) + Cardinality(inFlight) = 2

(* C25: a batch works on one resume at a time, in the order of the upload: *)
(* while it is at resume i the results of resumes 1..i-1, and only those,  *)
(* are recorded in that order, its one outstanding task is the call it     *)
(* awaits for resume i, and it moves to resume i+1 only in the step that   *)
(* records the result of resume i; the job description is read once,       *)
(* before any resume: the batch is at that step only straight after the    *)
(* upload, with no resume touched, and never returns to it.                *)
C25_SequentialInOrder ==
  /\ [](\A r \in Batches :
          /\ InLoop(r) =>
               /\ req[r].i \in 1..req[r].n
               /\ Len(req[r].results) = req[r].i - 1
               /\ \A k \in 1..Len(req[r].results) : req[r].results[k].idx = k
               /\ Outstanding(r) = IF Awaiting(r) THEN 1 ELSE 0
          /\ req[r].pc = "jd" =>
               /\ req[r].i = 0 /\ req[r].results = <<>> /\ req[r].text = ""
               /\ Outstanding(r) = 0)
  /\ [][\A r \in Requests :
          /\ (req'[r].kind = "batch" /\ req'[r].pc = "jd") => req[r].pc \in {"new", "jd"}
          /\ (InLoop(r) /\ InLoop(r)' /\ req'[r].i # req[r].i) =>
               /\ req'[r].i = req[r].i + 1
               /\ req'[r].pc = "resume"
               /\ req[r].pc = "resume" \/ req[r].inbox # "none"
               /\ Len(req'[r].results) = req[r].i
               /\ req'[r].results[req[r].i].idx = req[r].i
               /\ req'[r].results[req[r].i].resume_name = FileOf(req[r])]_vars

(* a batch reads its third resume after a failure variant and a success    *)
(* were recorded for the first two                                         *)
C25_Witness ==
  \E r \in Batches :
    /\ req[r].pc = "resume" /\ req[r].i = 3
    /\ IsFailure(req[r].results[1])
    /\ ~IsFailure(req[r].results[2])

(* C27: when reading the job description of a batch fails the request is   *)
(* answered in that step with status 500 and no ranked results; the step   *)
(* leaves the throttle and the name cache as they were, and nothing of the *)
(* batch happened before it: no result recorded, no task of the batch in   *)
(* the queue or in flight.                                                 *)
C27_JDFailureEndsBatch ==
  /\ [](\A r \in Batches :
          (req[r].pc = "done" /\ req[r].response.status = 500) =>
            /\ req[r].response.ranked_results = <<>>
            /\ req[r].response.total = 0
            /\ Outstanding(r) = 0)
  /\ [][\A r \in Requests :
          (req[r].kind = "batch" /\ req[r].pc = "jd" /\ req'[r].pc # "jd") =>
            /\ req[r].results = <<>> /\ Outstanding(r) = 0
            /\ UNCHANGED <<throttleVars, nameCache>>
            /\ \/ /\ req'[r].pc = "done"
                  /\ req'[r].response.status = 500
                  /\ req'[r].response.ranked_results = <<>>
               \/ req'[r].pc = "resume" /\ req'[r].i = 1]_vars

(* a batch of two resumes with a job description was answered 500 while    *)
(* nothing was cached or put on the throttle                               *)
C27_Witness ==
  /\ \E r \in Batches :
       /\ req[r].pc = "done" /\ req[r].response.status = 500
       /\ req[r].n = 2 /\ req[r].jd
  /\ \A f \in CacheKeys : nameCache[f] = NoName
  /\ requestQueue = <<>> /\ inFlight = {} /\ ~isProcessing

(* C26: when extractEntities takes the cache branch for a file (it goes to *)
(* the scoring call without a name call) the candidate name is the name    *)
(* an earlier resolution stored under that file name, whatever text the    *)
(* current document has: documents that share a file name share the name.  *)
C26_HitReturnsStoredName ==
  [][\A r \in Requests :
       (EntersEntities(r) /\ req'[r].pc = "score") =>
         /\ nameCache[FileOf(req[r])] # NoName
         /\ IsName(nameCache[FileOf(req[r])])
         /\ req'[r].text \in world.texts
         /\ req'[r].name = nameCache[FileOf(req[r])]]_vars

(* the name calls for file f that have been started and whose replies the  *)
(* callers have not read yet                                               *)
NameCallsStarted(f) ==
  {r \in Requests :
     /\ req[r].pc = "name"
     /\ FileOf(req[r]) = f
     /\ [owner |-> r, kind |-> "name"] \in inFlight \/ req[r].inbox # "none"}

(* C29 as stated: with a provider that names every document, no file name  *)
(* ever has two name calls started, also when two requests carry it at     *)
(* the same time.                                                          *)
C29_OneNameCallPerFile ==
  \A f \in FileNames : Cardinality(NameCallsStarted(f)) <= 1

(* a resolution of file f through the model has completed with a name *)
Resolved(f) ==
  \E q \in Requests :
    /\ req[q].pc = "score" /\ FileOf(req[q]) = f
    /\ IsName(req[q].llm)

(* C29 amended: a name call for a file is enqueued only while no           *)
(* resolution of that file through the model has completed and the cache   *)
(* has no entry for it, and the step in which a name call returns a name   *)
(* stores it; requests that entered name resolution for the file before    *)
(* that step each issue their own call.                                    *)
C29_NoNameCallOnceResolved ==
  /\ [](\A f \in FileNames : Resolved(f) => nameCache[f] # NoName)
  /\ [][\A t \in Enqueued :
          t.kind = "name" =>
            /\ nameCache[FileOf(req'[t.owner])] = NoName
            /\ ~Resolved(FileOf(req'[t.owner]))]_vars

(* one request has the name of a file from the model, in the cache, while  *)
(* the name call of another request for the same file is still in flight   *)
C29_Witness ==
  \E a, b \in Requests :
    /\ a # b
    /\ req[a].pc = "score" /\ req[b].pc = "name"
    /\ FileOf(req[a]) = FileOf(req[b])
    /\ nameCache[FileOf(req[a])] = req[a].llm /\ IsName(req[a].llm)
    /\ [owner |-> b, kind |-> "name"] \in inFlight

(* the result the step records for the resume request r is at *)
ResultOfStep(r) ==
  LET held == Held(req'[r])
  IN  held[CHOOSE k \in 1..Len(held) : held[k].idx = req[r].i]

RECURSIVE CloseOf(_, _, _)
CloseOf(s, i, depth) ==
  IF i > Len(s) THEN 0
  ELSE LET d == IF s[i] = "{" THEN depth + 1
                ELSE IF s[i] = "}" THEN depth - 1
                ELSE depth
       IN  IF d = 0 THEN i ELSE CloseOf(s, i + 1, d)

(* the first balanced {...} of the text, <<>> when it has none *)
FirstBalanced(s) ==
  LET starts == {a \in 1..Len(s) : s[a] = "{" /\ CloseOf(s, a, 0) # 0}
      first == CHOOSE a \in starts : \A b \in starts : a <= b
  IN  IF starts = {} THEN <<>> ELSE SubSeq(s, first, CloseOf(s, first, 0))

(* C22: whatever follows it in the reply, the object that is parsed is the *)
(* first balanced {...} of the reply: when the reply has one and it parses *)
(* the parsing succeeds with that object, for the scoring call and for the *)
(* name call, and a failure means the reply has no balanced {...} or its   *)
(* first one does not parse; for the scoring call the error is then that   *)
(* of a malformed response.                                                *)
C22_ParsesFirstBalanced ==
  reply.by # "none" =>
    /\ (FirstBalanced(reply.text) # <<>> /\ JSONParses(FirstBalanced(reply.text)))
         => (reply.ok /\ reply.obj = FirstBalanced(reply.text))
    /\ reply.ok => reply.obj = FirstBalanced(reply.text)
    /\ (~reply.ok /\ reply.by = "score") => reply.err \in {ErrJson, ErrParse}

(* the entities a result carries are the sentinels *)
SentinelEntities(res) ==
  /\ res.candidate_name = Unknown
  /\ res.email = Dash /\ res.phone = Dash /\ res.linkedin = Dash

(* C31: every failure-variant result carries the sentinel entities, also   *)
(* when the scoring step is the one that failed: the step that records a   *)
(* failure for a resume whose name and contact fields extractEntities had  *)
(* returned still records "Unknown" and the three unset contact fields.    *)
C31_FailureCarriesSentinels ==
  /\ [](\A r \in Requests : \A res \in ResultsOf(req[r]) :
          IsFailure(res) => SentinelEntities(res))
  /\ [][\A r \in Requests :
          (/\ req[r].kind = "batch" /\ req[r].pc = "score"
           /\ req[r].inbox # "none" /\ req'[r] # req[r]
           /\ IsFailure(ResultOfStep(r))) =>
            /\ SentinelEntities(ResultOfStep(r))
            /\ ResultOfStep(r).resume_name = FileOf(req[r])]_vars

(* a batch was answered with a failure variant for a resume whose scoring  *)
(* call failed and a success for its other resume, which reports the name  *)
(* and the contact fields found in it                                      *)
C31_Witness ==
  \E r \in Batches :
    /\ Answered(r) /\ req[r].response.total = 2
    /\ \E k \in 1..2 :
         /\ Ranked(r)[k].summary \in {ErrStatus, ErrJson}
         /\ SentinelEntities(Ranked(r)[k])
    /\ \E k \in 1..2 :
         /\ ~IsFailure(Ranked(r)[k])
         /\ Ranked(r)[k].candidate_name = "Ann Lee"
         /\ Ranked(r)[k].email = Email1
         /\ Ranked(r)[k].phone # Dash /\ Ranked(r)[k].linkedin # Dash

(* C32: the step in which the scoring of a resume fails and the batch's    *)
(* catch block records the failure variant leaves the name cache and the   *)
(* throttle as they were; the name the model returned for that resume is   *)
(* still cached afterwards, so a request that then enters name resolution  *)
(* for the same file name takes the cache branch (and takes it exactly     *)
(* when the file name has a cached name, whatever failures were recorded). *)
C32_FailureKeepsCache ==
  /\ [][\A r \in Requests :
          (/\ req[r].kind = "batch" /\ req[r].pc = "score"
           /\ req[r].inbox # "none" /\ req'[r] # req[r]
           /\ IsFailure(ResultOfStep(r))) =>
            /\ nameCache' = nameCache
            /\ UNCHANGED throttleVars
            /\ (req[r].llm = "Ann Lee") => nameCache'[FileOf(req[r])] = "Ann Lee"]_vars
  /\ [][\A q \in Requests :
          (/\ EntersEntities(q)
           /\ \E r \in Requests : \E res \in ResultsOf(req[r]) :
                res.summary \in {ErrStatus, ErrJson} /\ res.resume_name = FileOf(req[q]))
            => /\ req'[q].pc = "score" <=> nameCache[FileOf(req[q])] # NoName
               /\ req'[q].pc = "score" => req'[q].llm = nameCache[FileOf(req[q])]]_vars

(* the scoring of a.pdf failed in an answered batch, its name is cached,   *)
(* and another request that carries a.pdf is at its scoring call with the  *)
(* cached name                                                             *)
C32_Witness ==
  \E r, q \in Requests :
    /\ r # q
    /\ Answered(r) /\ req[r].kind = "batch"
    /\ \E k \in 1..Len(Ranked(r)) :
         Ranked(r)[k].summary = ErrStatus /\ Ranked(r)[k].resume_name = "a.pdf"
    /\ nameCache["a.pdf"] = "Ann Lee"
    /\ req[q].pc = "score" /\ FileOf(req[q]) = "a.pdf" /\ req[q].llm = "Ann Lee"

(* the buttons agree with the selections *)
ButtonsFollowSelection(u) ==
  /\ ~u.processDisabled <=> (u.resumes >= 1 /\ u.jds >= 1)
  /\ u.clearDisplay # "none" <=> (u.resumes >= 1 \/ u.jds >= 1)

(* C33: once a resume selection, a job-description selection or a clear    *)
(* has happened, and from then on whatever else happens, the process       *)
(* button is enabled exactly when at least one resume and one job          *)
(* description are selected and the clear button is displayed exactly when *)
(* a file of either kind is selected; right after a clear both selections, *)
(* the file lists, the result table and the result section are empty or    *)
(* hidden.                                                                 *)
C33_UploadUIState ==
  /\ [](ui.last \in {"resumes", "jds", "clear"} => ButtonsFollowSelection(ui))
  /\ [][ButtonsFollowSelection(ui) => ButtonsFollowSelection(ui')]_vars
  /\ [](ui.last = "clear" =>
          /\ ui.resumes = 0 /\ ui.jds = 0
          /\ ui.resumeInput = 0 /\ ui.jdInput = 0
          /\ ui.resumeFileList = 0 /\ ui.jdFileList = 0
          /\ ui.rows = 0 /\ ui.resultsDisplay = "none"
          /\ ui.processDisabled /\ ui.clearDisplay = "none")

(* the selections were cleared while a click of the process button, made   *)
(* with two resumes selected, still waits for its batch reply              *)
C33_Witness ==
  /\ ui.last = "clear"
  /\ ui.runs # <<>>
  /\ ui.runs[1].sent = 2 /\ ui.runs[1].left = 1

====
